---- MODULE Spec2Model ----
(***************************************************************************)
(* A model of the KZ Legal RAG glue layer: the answer coercion and the     *)
(* POST /query endpoint of rag_api.py, the query pipeline and the lazily   *)
(* initialised handles of rag_pipeline.py, the command-line loop of        *)
(* query_rag.py, and the document loader and the vector-store build of     *)
(* rag_data.py.                                                            *)
(*                                                                         *)
(* A str is the sequence of its Unicode code points.  The embedding model, *)
(* the vector database and the chat model are external: what they return   *)
(* or raise is chosen nondeterministically.  POST /query is a plain def,   *)
(* which FastAPI runs on a pool of worker threads, so requests overlap:    *)
(* every read and every write of the module globals and of the directory   *)
(* on disk is a step of its own.                                           *)
(***************************************************************************)
EXTENDS Integers, Sequences, FiniteSets, TLC

VARIABLES
    raw_answer,     \* _coerce_answer: its argument
    coerced,        \* _coerce_answer: its return value (type "pending" before the call)
    chunksIn,       \* collect_chunk_metadata: its argument
    structured,     \* collect_chunk_metadata: its return value
    metaDone,       \* collect_chunk_metadata has returned
    tree,           \* load_legal_documents: what DATA_DIR.rglob("*") yields
    documents,      \* load_legal_documents: its return value
    warnings,       \* load_legal_documents: the lines it printed, by kind and file name
    loadDone,       \* load_legal_documents has returned
    persist_dir,    \* PERSIST_DIR on disk: whether it exists and the chunks it holds
    ingest,         \* the run of build_vector_store: its position, its locals, and
                    \* whether it found chunks of an earlier run in PERSIST_DIR
    globals,        \* rag_pipeline's _embeddings, _vector_store and _llm
    built,          \* how many times each of the three has been constructed
    pc,             \* per thread: the position of the thread in its request
    payload,        \* per thread: the QuestionsBatch of the request
    idx,            \* per thread: the position of the current question
    responses,      \* per thread: the responses list of query_endpoint
    frame,          \* per thread: the locals of query_endpoint and query_rag
    http,           \* per thread: the HTTP response of the request
    call,           \* per thread: what the current call of query_rag was given and did
    absent          \* per thread: whether PERSIST_DIR has been missing ever since the
                    \* current call of query_rag began, and whether that was so for
                    \* the whole of some call of the request

\* the variables of the functions that are checked on their own
functionVars == <<raw_answer, coerced, chunksIn, structured, metaDone,
                  tree, documents, warnings, loadDone>>

\* the variables of the process that answers queries
requestVars == <<globals, built, pc, payload, idx, responses, frame, http, call>>

\* the variables of the directory on disk and of the ingestion run
diskVars == <<persist_dir, ingest, absent>>

-----------------------------------------------------------------------------
(* Text.  A Python str is the sequence of its Unicode code points.         *)

\* the printable ASCII characters, code points 32 to 126 ("grave" stands for
\* the grave accent, code point 96)
Printable ==
    << " ", "!", "\"", "#", "$", "%", "&", "'", "(", ")", "*", "+", ",", "-", ".", "/",
       "0", "1", "2", "3", "4", "5", "6", "7", "8", "9", ":", ";", "<", "=", ">", "?",
       "@", "A", "B", "C", "D", "E", "F", "G", "H", "I", "J", "K", "L", "M", "N", "O",
       "P", "Q", "R", "S", "T", "U", "V", "W", "X", "Y", "Z", "[", "\\", "]", "^", "_",
       "grave", "a", "b", "c", "d", "e", "f", "g", "h", "i", "j", "k", "l", "m", "n", "o",
       "p", "q", "r", "s", "t", "u", "v", "w", "x", "y", "z", "{", "|", "}", "~" >>

\* ord(c) of a printable ASCII character
Ord(c) == 31 + (CHOOSE i \in 1..Len(Printable) : Printable[i] = c)

\* the str whose characters are the given printable ASCII characters
Str(cs) == [i \in 1..Len(cs) |-> Ord(cs[i])]

Comma == Ord(",")

Dot == Ord(".")

Underscore == Ord("_")

Minus == Ord("-")

MinOf(S) == CHOOSE i \in S : \A j \in S : i <= j

MaxOf(S) == CHOOSE i \in S : \A j \in S : j <= i

\* the characters str.strip() removes, those for which str.isspace() holds:
\* the controls 9-13 and 28-31, the space, NEL, the no-break space and the
\* Unicode separators
IsSpace(c) ==
    \/ c \in {9, 10, 11, 12, 13, 28, 29, 30, 31, 32, 133, 160, 5760}
    \/ c \in 8192..8202
    \/ c \in {8232, 8233, 8239, 8287, 12288}

\* the code points of the digit zero of every Unicode decimal-digit block
\* (general category Nd, Unicode 14); the digits 0 to 9 of a block are
\* consecutive
DecimalZeros ==
    { 48, 1632, 1776, 1984, 2406, 2534, 2662, 2790, 2918, 3046, 3174,
      3302, 3430, 3558, 3664, 3792, 3872, 4160, 4240, 6112, 6160, 6470,
      6608, 6784, 6800, 6992, 7088, 7232, 7248, 42528, 43216, 43264, 43472,
      43504, 43600, 44016, 65296, 66720, 68912, 69734, 69872, 69942, 70096, 70384,
      70736, 70864, 71248, 71360, 71472, 71904, 72016, 72784, 73040, 73120, 92768,
      92864, 93008, 120782, 120792, 120802, 120812, 120822, 123200, 123632, 125264, 130032 }

\* int() and float() read every Unicode decimal digit as its ASCII digit
IsDigit(c) == \E z \in DecimalZeros : c >= z /\ c <= z + 9

DigitVal(c) == c - (CHOOSE z \in DecimalZeros : c >= z /\ c <= z + 9)

\* float() compares "inf", "infinity" and "nan" without regard to the case of
\* the ASCII letters, and of no other: "A" to "Z" are the code points 65 to
\* 90, "a" is 97
LowerAscii(s) == [i \in 1..Len(s) |-> IF s[i] >= 65 /\ s[i] <= 90 THEN s[i] + 32 ELSE s[i]]

\* str.lower(), character by character (Unicode 14): the characters whose
\* lower case is one other character, as <<first, last, step, delta>>: every
\* step-th code point from first to last lowers to itself plus delta
LowerRuns ==
    { <<65, 90, 1, 32>>, <<192, 214, 1, 32>>, <<216, 222, 1, 32>>, <<256, 302, 2, 1>>,
      <<306, 310, 2, 1>>, <<313, 327, 2, 1>>, <<330, 374, 2, 1>>, <<376, 376, 1, -121>>,
      <<377, 381, 2, 1>>, <<385, 385, 1, 210>>, <<386, 388, 2, 1>>, <<390, 390, 1, 206>>,
      <<391, 391, 1, 1>>, <<393, 394, 1, 205>>, <<395, 395, 1, 1>>, <<398, 398, 1, 79>>,
      <<399, 399, 1, 202>>, <<400, 400, 1, 203>>, <<401, 401, 1, 1>>, <<403, 403, 1, 205>>,
      <<404, 404, 1, 207>>, <<406, 406, 1, 211>>, <<407, 407, 1, 209>>, <<408, 408, 1, 1>>,
      <<412, 412, 1, 211>>, <<413, 413, 1, 213>>, <<415, 415, 1, 214>>, <<416, 420, 2, 1>>,
      <<422, 422, 1, 218>>, <<423, 423, 1, 1>>, <<425, 425, 1, 218>>, <<428, 428, 1, 1>>,
      <<430, 430, 1, 218>>, <<431, 431, 1, 1>>, <<433, 434, 1, 217>>, <<435, 437, 2, 1>>,
      <<439, 439, 1, 219>>, <<440, 440, 1, 1>>, <<444, 444, 1, 1>>, <<452, 452, 1, 2>>,
      <<453, 453, 1, 1>>, <<455, 455, 1, 2>>, <<456, 456, 1, 1>>, <<458, 458, 1, 2>>,
      <<459, 475, 2, 1>>, <<478, 494, 2, 1>>, <<497, 497, 1, 2>>, <<498, 500, 2, 1>>,
      <<502, 502, 1, -97>>, <<503, 503, 1, -56>>, <<504, 542, 2, 1>>, <<544, 544, 1, -130>>,
      <<546, 562, 2, 1>>, <<570, 570, 1, 10795>>, <<571, 571, 1, 1>>, <<573, 573, 1, -163>>,
      <<574, 574, 1, 10792>>, <<577, 577, 1, 1>>, <<579, 579, 1, -195>>, <<580, 580, 1, 69>>,
      <<581, 581, 1, 71>>, <<582, 590, 2, 1>>, <<880, 882, 2, 1>>, <<886, 886, 1, 1>>,
      <<895, 895, 1, 116>>, <<902, 902, 1, 38>>, <<904, 906, 1, 37>>, <<908, 908, 1, 64>>,
      <<910, 911, 1, 63>>, <<913, 929, 1, 32>>, <<931, 939, 1, 32>>, <<975, 975, 1, 8>>,
      <<984, 1006, 2, 1>>, <<1012, 1012, 1, -60>>, <<1015, 1015, 1, 1>>, <<1017, 1017, 1, -7>>,
      <<1018, 1018, 1, 1>>, <<1021, 1023, 1, -130>>, <<1024, 1039, 1, 80>>,
      <<1040, 1071, 1, 32>>, <<1120, 1152, 2, 1>>, <<1162, 1214, 2, 1>>, <<1216, 1216, 1, 15>>,
      <<1217, 1229, 2, 1>>, <<1232, 1326, 2, 1>>, <<1329, 1366, 1, 48>>,
      <<4256, 4293, 1, 7264>>, <<4295, 4295, 1, 7264>>, <<4301, 4301, 1, 7264>>,
      <<5024, 5103, 1, 38864>>, <<5104, 5109, 1, 8>>, <<7312, 7354, 1, -3008>>,
      <<7357, 7359, 1, -3008>>, <<7680, 7828, 2, 1>>, <<7838, 7838, 1, -7615>>,
      <<7840, 7934, 2, 1>>, <<7944, 7951, 1, -8>>, <<7960, 7965, 1, -8>>,
      <<7976, 7983, 1, -8>>, <<7992, 7999, 1, -8>>, <<8008, 8013, 1, -8>>,
      <<8025, 8031, 2, -8>>, <<8040, 8047, 1, -8>>, <<8072, 8079, 1, -8>>,
      <<8088, 8095, 1, -8>>, <<8104, 8111, 1, -8>>, <<8120, 8121, 1, -8>>,
      <<8122, 8123, 1, -74>>, <<8124, 8124, 1, -9>>, <<8136, 8139, 1, -86>>,
      <<8140, 8140, 1, -9>>, <<8152, 8153, 1, -8>>, <<8154, 8155, 1, -100>>,
      <<8168, 8169, 1, -8>>, <<8170, 8171, 1, -112>>, <<8172, 8172, 1, -7>>,
      <<8184, 8185, 1, -128>>, <<8186, 8187, 1, -126>>, <<8188, 8188, 1, -9>>,
      <<8486, 8486, 1, -7517>>, <<8490, 8490, 1, -8383>>, <<8491, 8491, 1, -8262>>,
      <<8498, 8498, 1, 28>>, <<8544, 8559, 1, 16>>, <<8579, 8579, 1, 1>>,
      <<9398, 9423, 1, 26>>, <<11264, 11311, 1, 48>>, <<11360, 11360, 1, 1>>,
      <<11362, 11362, 1, -10743>>, <<11363, 11363, 1, -3814>>, <<11364, 11364, 1, -10727>>,
      <<11367, 11371, 2, 1>>, <<11373, 11373, 1, -10780>>, <<11374, 11374, 1, -10749>>,
      <<11375, 11375, 1, -10783>>, <<11376, 11376, 1, -10782>>, <<11378, 11378, 1, 1>>,
      <<11381, 11381, 1, 1>>, <<11390, 11391, 1, -10815>>, <<11392, 11490, 2, 1>>,
      <<11499, 11501, 2, 1>>, <<11506, 11506, 1, 1>>, <<42560, 42604, 2, 1>>,
      <<42624, 42650, 2, 1>>, <<42786, 42798, 2, 1>>, <<42802, 42862, 2, 1>>,
      <<42873, 42875, 2, 1>>, <<42877, 42877, 1, -35332>>, <<42878, 42886, 2, 1>>,
      <<42891, 42891, 1, 1>>, <<42893, 42893, 1, -42280>>, <<42896, 42898, 2, 1>>,
      <<42902, 42920, 2, 1>>, <<42922, 42922, 1, -42308>>, <<42923, 42923, 1, -42319>>,
      <<42924, 42924, 1, -42315>>, <<42925, 42925, 1, -42305>>, <<42926, 42926, 1, -42308>>,
      <<42928, 42928, 1, -42258>>, <<42929, 42929, 1, -42282>>, <<42930, 42930, 1, -42261>>,
      <<42931, 42931, 1, 928>>, <<42932, 42946, 2, 1>>, <<42948, 42948, 1, -48>>,
      <<42949, 42949, 1, -42307>>, <<42950, 42950, 1, -35384>>, <<42951, 42953, 2, 1>>,
      <<42960, 42960, 1, 1>>, <<42966, 42968, 2, 1>>, <<42997, 42997, 1, 1>>,
      <<65313, 65338, 1, 32>>, <<66560, 66599, 1, 40>>, <<66736, 66771, 1, 40>>,
      <<66928, 66938, 1, 39>>, <<66940, 66954, 1, 39>>, <<66956, 66962, 1, 39>>,
      <<66964, 66965, 1, 39>>, <<68736, 68786, 1, 64>>, <<71840, 71871, 1, 32>>,
      <<93760, 93791, 1, 32>>, <<125184, 125217, 1, 34>> }

\* the characters with the Unicode property Case_Ignorable, as <<first, last>>
CaseIgnorable ==
    { <<39, 39>>, <<46, 46>>, <<58, 58>>, <<94, 94>>, <<96, 96>>, <<168, 168>>, <<173, 173>>,
      <<175, 175>>, <<180, 180>>, <<183, 184>>, <<688, 879>>, <<884, 885>>, <<890, 890>>,
      <<900, 901>>, <<903, 903>>, <<1155, 1161>>, <<1369, 1369>>, <<1375, 1375>>,
      <<1425, 1469>>, <<1471, 1471>>, <<1473, 1474>>, <<1476, 1477>>, <<1479, 1479>>,
      <<1524, 1524>>, <<1536, 1541>>, <<1552, 1562>>, <<1564, 1564>>, <<1600, 1600>>,
      <<1611, 1631>>, <<1648, 1648>>, <<1750, 1757>>, <<1759, 1768>>, <<1770, 1773>>,
      <<1807, 1807>>, <<1809, 1809>>, <<1840, 1866>>, <<1958, 1968>>, <<2027, 2037>>,
      <<2042, 2042>>, <<2045, 2045>>, <<2070, 2093>>, <<2137, 2139>>, <<2184, 2184>>,
      <<2192, 2193>>, <<2200, 2207>>, <<2249, 2306>>, <<2362, 2362>>, <<2364, 2364>>,
      <<2369, 2376>>, <<2381, 2381>>, <<2385, 2391>>, <<2402, 2403>>, <<2417, 2417>>,
      <<2433, 2433>>, <<2492, 2492>>, <<2497, 2500>>, <<2509, 2509>>, <<2530, 2531>>,
      <<2558, 2558>>, <<2561, 2562>>, <<2620, 2620>>, <<2625, 2626>>, <<2631, 2632>>,
      <<2635, 2637>>, <<2641, 2641>>, <<2672, 2673>>, <<2677, 2677>>, <<2689, 2690>>,
      <<2748, 2748>>, <<2753, 2757>>, <<2759, 2760>>, <<2765, 2765>>, <<2786, 2787>>,
      <<2810, 2815>>, <<2817, 2817>>, <<2876, 2876>>, <<2879, 2879>>, <<2881, 2884>>,
      <<2893, 2893>>, <<2901, 2902>>, <<2914, 2915>>, <<2946, 2946>>, <<3008, 3008>>,
      <<3021, 3021>>, <<3072, 3072>>, <<3076, 3076>>, <<3132, 3132>>, <<3134, 3136>>,
      <<3142, 3144>>, <<3146, 3149>>, <<3157, 3158>>, <<3170, 3171>>, <<3201, 3201>>,
      <<3260, 3260>>, <<3263, 3263>>, <<3270, 3270>>, <<3276, 3277>>, <<3298, 3299>>,
      <<3328, 3329>>, <<3387, 3388>>, <<3393, 3396>>, <<3405, 3405>>, <<3426, 3427>>,
      <<3457, 3457>>, <<3530, 3530>>, <<3538, 3540>>, <<3542, 3542>>, <<3633, 3633>>,
      <<3636, 3642>>, <<3654, 3662>>, <<3761, 3761>>, <<3764, 3772>>, <<3782, 3782>>,
      <<3784, 3789>>, <<3864, 3865>>, <<3893, 3893>>, <<3895, 3895>>, <<3897, 3897>>,
      <<3953, 3966>>, <<3968, 3972>>, <<3974, 3975>>, <<3981, 3991>>, <<3993, 4028>>,
      <<4038, 4038>>, <<4141, 4144>>, <<4146, 4151>>, <<4153, 4154>>, <<4157, 4158>>,
      <<4184, 4185>>, <<4190, 4192>>, <<4209, 4212>>, <<4226, 4226>>, <<4229, 4230>>,
      <<4237, 4237>>, <<4253, 4253>>, <<4348, 4348>>, <<4957, 4959>>, <<5906, 5908>>,
      <<5938, 5939>>, <<5970, 5971>>, <<6002, 6003>>, <<6068, 6069>>, <<6071, 6077>>,
      <<6086, 6086>>, <<6089, 6099>>, <<6103, 6103>>, <<6109, 6109>>, <<6155, 6159>>,
      <<6211, 6211>>, <<6277, 6278>>, <<6313, 6313>>, <<6432, 6434>>, <<6439, 6440>>,
      <<6450, 6450>>, <<6457, 6459>>, <<6679, 6680>>, <<6683, 6683>>, <<6742, 6742>>,
      <<6744, 6750>>, <<6752, 6752>>, <<6754, 6754>>, <<6757, 6764>>, <<6771, 6780>>,
      <<6783, 6783>>, <<6823, 6823>>, <<6832, 6862>>, <<6912, 6915>>, <<6964, 6964>>,
      <<6966, 6970>>, <<6972, 6972>>, <<6978, 6978>>, <<7019, 7027>>, <<7040, 7041>>,
      <<7074, 7077>>, <<7080, 7081>>, <<7083, 7085>>, <<7142, 7142>>, <<7144, 7145>>,
      <<7149, 7149>>, <<7151, 7153>>, <<7212, 7219>>, <<7222, 7223>>, <<7288, 7293>>,
      <<7376, 7378>>, <<7380, 7392>>, <<7394, 7400>>, <<7405, 7405>>, <<7412, 7412>>,
      <<7416, 7417>>, <<7468, 7530>>, <<7544, 7544>>, <<7579, 7679>>, <<8125, 8125>>,
      <<8127, 8129>>, <<8141, 8143>>, <<8157, 8159>>, <<8173, 8175>>, <<8189, 8190>>,
      <<8203, 8207>>, <<8216, 8217>>, <<8228, 8228>>, <<8231, 8231>>, <<8234, 8238>>,
      <<8288, 8292>>, <<8294, 8303>>, <<8305, 8305>>, <<8319, 8319>>, <<8336, 8348>>,
      <<8400, 8432>>, <<11388, 11389>>, <<11503, 11505>>, <<11631, 11631>>, <<11647, 11647>>,
      <<11744, 11775>>, <<11823, 11823>>, <<12293, 12293>>, <<12330, 12333>>, <<12337, 12341>>,
      <<12347, 12347>>, <<12441, 12446>>, <<12540, 12542>>, <<40981, 40981>>, <<42232, 42237>>,
      <<42508, 42508>>, <<42607, 42610>>, <<42612, 42621>>, <<42623, 42623>>, <<42652, 42655>>,
      <<42736, 42737>>, <<42752, 42785>>, <<42864, 42864>>, <<42888, 42890>>, <<42994, 42996>>,
      <<43000, 43001>>, <<43010, 43010>>, <<43014, 43014>>, <<43019, 43019>>, <<43045, 43046>>,
      <<43052, 43052>>, <<43204, 43205>>, <<43232, 43249>>, <<43263, 43263>>, <<43302, 43309>>,
      <<43335, 43345>>, <<43392, 43394>>, <<43443, 43443>>, <<43446, 43449>>, <<43452, 43453>>,
      <<43471, 43471>>, <<43493, 43494>>, <<43561, 43566>>, <<43569, 43570>>, <<43573, 43574>>,
      <<43587, 43587>>, <<43596, 43596>>, <<43632, 43632>>, <<43644, 43644>>, <<43696, 43696>>,
      <<43698, 43700>>, <<43703, 43704>>, <<43710, 43711>>, <<43713, 43713>>, <<43741, 43741>>,
      <<43756, 43757>>, <<43763, 43764>>, <<43766, 43766>>, <<43867, 43871>>, <<43881, 43883>>,
      <<44005, 44005>>, <<44008, 44008>>, <<44013, 44013>>, <<64286, 64286>>, <<64434, 64450>>,
      <<65024, 65039>>, <<65043, 65043>>, <<65056, 65071>>, <<65106, 65106>>, <<65109, 65109>>,
      <<65279, 65279>>, <<65287, 65287>>, <<65294, 65294>>, <<65306, 65306>>, <<65342, 65342>>,
      <<65344, 65344>>, <<65392, 65392>>, <<65438, 65439>>, <<65507, 65507>>, <<65529, 65531>>,
      <<66045, 66045>>, <<66272, 66272>>, <<66422, 66426>>, <<67456, 67461>>, <<67463, 67504>>,
      <<67506, 67514>>, <<68097, 68099>>, <<68101, 68102>>, <<68108, 68111>>, <<68152, 68154>>,
      <<68159, 68159>>, <<68325, 68326>>, <<68900, 68903>>, <<69291, 69292>>, <<69446, 69456>>,
      <<69506, 69509>>, <<69633, 69633>>, <<69688, 69702>>, <<69744, 69744>>, <<69747, 69748>>,
      <<69759, 69761>>, <<69811, 69814>>, <<69817, 69818>>, <<69821, 69821>>, <<69826, 69826>>,
      <<69837, 69837>>, <<69888, 69890>>, <<69927, 69931>>, <<69933, 69940>>, <<70003, 70003>>,
      <<70016, 70017>>, <<70070, 70078>>, <<70089, 70092>>, <<70095, 70095>>, <<70191, 70193>>,
      <<70196, 70196>>, <<70198, 70199>>, <<70206, 70206>>, <<70367, 70367>>, <<70371, 70378>>,
      <<70400, 70401>>, <<70459, 70460>>, <<70464, 70464>>, <<70502, 70508>>, <<70512, 70516>>,
      <<70712, 70719>>, <<70722, 70724>>, <<70726, 70726>>, <<70750, 70750>>, <<70835, 70840>>,
      <<70842, 70842>>, <<70847, 70848>>, <<70850, 70851>>, <<71090, 71093>>, <<71100, 71101>>,
      <<71103, 71104>>, <<71132, 71133>>, <<71219, 71226>>, <<71229, 71229>>, <<71231, 71232>>,
      <<71339, 71339>>, <<71341, 71341>>, <<71344, 71349>>, <<71351, 71351>>, <<71453, 71455>>,
      <<71458, 71461>>, <<71463, 71467>>, <<71727, 71735>>, <<71737, 71738>>, <<71995, 71996>>,
      <<71998, 71998>>, <<72003, 72003>>, <<72148, 72151>>, <<72154, 72155>>, <<72160, 72160>>,
      <<72193, 72202>>, <<72243, 72248>>, <<72251, 72254>>, <<72263, 72263>>, <<72273, 72278>>,
      <<72281, 72283>>, <<72330, 72342>>, <<72344, 72345>>, <<72752, 72758>>, <<72760, 72765>>,
      <<72767, 72767>>, <<72850, 72871>>, <<72874, 72880>>, <<72882, 72883>>, <<72885, 72886>>,
      <<73009, 73014>>, <<73018, 73018>>, <<73020, 73021>>, <<73023, 73029>>, <<73031, 73031>>,
      <<73104, 73105>>, <<73109, 73109>>, <<73111, 73111>>, <<73459, 73460>>, <<78896, 78904>>,
      <<92912, 92916>>, <<92976, 92982>>, <<92992, 92995>>, <<94031, 94031>>, <<94095, 94111>>,
      <<94176, 94177>>, <<94179, 94180>>, <<110576, 110579>>, <<110581, 110587>>,
      <<110589, 110590>>, <<113821, 113822>>, <<113824, 113827>>, <<118528, 118573>>,
      <<118576, 118598>>, <<119143, 119145>>, <<119155, 119170>>, <<119173, 119179>>,
      <<119210, 119213>>, <<119362, 119364>>, <<121344, 121398>>, <<121403, 121452>>,
      <<121461, 121461>>, <<121476, 121476>>, <<121499, 121503>>, <<121505, 121519>>,
      <<122880, 122886>>, <<122888, 122904>>, <<122907, 122913>>, <<122915, 122916>>,
      <<122918, 122922>>, <<123184, 123197>>, <<123566, 123566>>, <<123628, 123631>>,
      <<125136, 125142>>, <<125252, 125259>>, <<127995, 127999>>, <<917505, 917505>>,
      <<917536, 917631>>, <<917760, 917999>> }

\* the characters with the Unicode property Cased, as <<first, last>>
Cased ==
    { <<65, 90>>, <<97, 122>>, <<170, 170>>, <<181, 181>>, <<186, 186>>, <<192, 214>>,
      <<216, 246>>, <<248, 442>>, <<444, 447>>, <<452, 659>>, <<661, 696>>, <<704, 705>>,
      <<736, 740>>, <<837, 837>>, <<880, 883>>, <<886, 887>>, <<890, 893>>, <<895, 895>>,
      <<902, 902>>, <<904, 906>>, <<908, 908>>, <<910, 929>>, <<931, 1013>>, <<1015, 1153>>,
      <<1162, 1327>>, <<1329, 1366>>, <<1376, 1416>>, <<4256, 4293>>, <<4295, 4295>>,
      <<4301, 4301>>, <<4304, 4346>>, <<4349, 4351>>, <<5024, 5109>>, <<5112, 5117>>,
      <<7296, 7304>>, <<7312, 7354>>, <<7357, 7359>>, <<7424, 7615>>, <<7680, 7957>>,
      <<7960, 7965>>, <<7968, 8005>>, <<8008, 8013>>, <<8016, 8023>>, <<8025, 8025>>,
      <<8027, 8027>>, <<8029, 8029>>, <<8031, 8061>>, <<8064, 8116>>, <<8118, 8124>>,
      <<8126, 8126>>, <<8130, 8132>>, <<8134, 8140>>, <<8144, 8147>>, <<8150, 8155>>,
      <<8160, 8172>>, <<8178, 8180>>, <<8182, 8188>>, <<8305, 8305>>, <<8319, 8319>>,
      <<8336, 8348>>, <<8450, 8450>>, <<8455, 8455>>, <<8458, 8467>>, <<8469, 8469>>,
      <<8473, 8477>>, <<8484, 8484>>, <<8486, 8486>>, <<8488, 8488>>, <<8490, 8493>>,
      <<8495, 8500>>, <<8505, 8505>>, <<8508, 8511>>, <<8517, 8521>>, <<8526, 8526>>,
      <<8544, 8575>>, <<8579, 8580>>, <<9398, 9449>>, <<11264, 11492>>, <<11499, 11502>>,
      <<11506, 11507>>, <<11520, 11557>>, <<11559, 11559>>, <<11565, 11565>>, <<42560, 42605>>,
      <<42624, 42653>>, <<42786, 42887>>, <<42891, 42894>>, <<42896, 42954>>, <<42960, 42961>>,
      <<42963, 42963>>, <<42965, 42969>>, <<42997, 42998>>, <<43000, 43002>>, <<43824, 43866>>,
      <<43868, 43880>>, <<43888, 43967>>, <<64256, 64262>>, <<64275, 64279>>, <<65313, 65338>>,
      <<65345, 65370>>, <<66560, 66639>>, <<66736, 66771>>, <<66776, 66811>>, <<66928, 66938>>,
      <<66940, 66954>>, <<66956, 66962>>, <<66964, 66965>>, <<66967, 66977>>, <<66979, 66993>>,
      <<66995, 67001>>, <<67003, 67004>>, <<67456, 67456>>, <<67459, 67461>>, <<67463, 67504>>,
      <<67506, 67514>>, <<68736, 68786>>, <<68800, 68850>>, <<71840, 71903>>, <<93760, 93823>>,
      <<119808, 119892>>, <<119894, 119964>>, <<119966, 119967>>, <<119970, 119970>>,
      <<119973, 119974>>, <<119977, 119980>>, <<119982, 119993>>, <<119995, 119995>>,
      <<119997, 120003>>, <<120005, 120069>>, <<120071, 120074>>, <<120077, 120084>>,
      <<120086, 120092>>, <<120094, 120121>>, <<120123, 120126>>, <<120128, 120132>>,
      <<120134, 120134>>, <<120138, 120144>>, <<120146, 120485>>, <<120488, 120512>>,
      <<120514, 120538>>, <<120540, 120570>>, <<120572, 120596>>, <<120598, 120628>>,
      <<120630, 120654>>, <<120656, 120686>>, <<120688, 120712>>, <<120714, 120744>>,
      <<120746, 120770>>, <<120772, 120779>>, <<122624, 122633>>, <<122635, 122654>>,
      <<125184, 125251>>, <<127280, 127305>>, <<127312, 127337>>, <<127344, 127369>> }

\* str.lower() on a capital sigma, s[i]: it is a final sigma when a cased
\* character comes before it and none comes after it, characters that are
\* case-ignorable not counted
FinalSigma(s, i) ==
    LET Ignorable(c) == \E r \in CaseIgnorable : r[1] <= c /\ c <= r[2]
        IsCased(c) == \E r \in Cased : r[1] <= c /\ c <= r[2]
        before == {j \in 1..(i - 1) : ~Ignorable(s[j])}
        after == {j \in (i + 1)..Len(s) : ~Ignorable(s[j])}
    IN /\ before # {}
       /\ IsCased(s[MaxOf(before)])
       /\ after = {} \/ ~IsCased(s[MinOf(after)])

\* str.lower() from character i on: the capital sigma (931) lowers to the
\* final sigma (962) or to the small sigma (963), the capital I with a dot
\* above (304) to "i" and a combining dot above, and every other character
\* as LowerRuns says
RECURSIVE LowerFrom(_, _)
LowerFrom(s, i) ==
    LET c == s[i]
        runs == { r \in LowerRuns : r[1] <= c /\ c <= r[2] /\ (c - r[1]) % r[3] = 0 }
        lowered == IF c = 931 THEN IF FinalSigma(s, i) THEN <<962>> ELSE <<963>>
                   ELSE IF c = 304 THEN <<105, 775>>
                   ELSE IF runs = {} THEN <<c>>
                   ELSE <<c + (CHOOSE r \in runs : TRUE)[4]>>
    IN IF i > Len(s) THEN <<>> ELSE lowered \o LowerFrom(s, i + 1)

\* str.lower()
Lower(s) == LowerFrom(s, 1)

\* str.strip()
Strip(s) ==
    LET kept == {i \in 1..Len(s) : ~IsSpace(s[i])}
    IN IF kept = {} THEN <<>> ELSE SubSeq(s, MinOf(kept), MaxOf(kept))

\* str.replace(",", ".")
ReplaceComma(s) == [i \in 1..Len(s) |-> IF s[i] = Comma THEN Dot ELSE s[i]]

-----------------------------------------------------------------------------
(* Natural numbers of any size, for the values of int() and float(): a     *)
(* sequence of limbs, most significant first, without leading zero limbs;  *)
(* zero is <<0>>.                                                           *)

\* the limb base
Base == 100000000

\* the decimal digits of a limb
BaseDigits == 8

Trim(x) ==
    LET nz == {i \in 1..Len(x) : x[i] # 0}
    IN IF nz = {} THEN <<0>> ELSE SubSeq(x, MinOf(nz), Len(x))

\* -1, 0 or 1 as a < b, a = b or a > b
Cmp(a, b) ==
    IF Len(a) # Len(b) THEN (IF Len(a) < Len(b) THEN -1 ELSE 1)
    ELSE LET diff == {i \in 1..Len(a) : a[i] # b[i]}
         IN IF diff = {} THEN 0
            ELSE IF a[MinOf(diff)] < b[MinOf(diff)] THEN -1 ELSE 1

\* 2 * x: a limb takes a carry exactly when the limb below it is at least
\* half the base
Dbl(x) ==
    Trim([i \in 1..(Len(x) + 1) |->
            (IF i > 1 THEN (2 * x[i - 1]) % Base ELSE 0)
            + (IF i <= Len(x) /\ 2 * x[i] >= Base THEN 1 ELSE 0)])

\* x \div 2
Halve(x) ==
    Trim([i \in 1..Len(x) |->
            (x[i] \div 2) + (IF i > 1 /\ x[i - 1] % 2 = 1 THEN Base \div 2 ELSE 0)])

\* x * 2^k
RECURSIVE Shl(_, _)
Shl(x, k) ==
    IF k = 0 THEN x
    ELSE IF k = 1 THEN Dbl(x)
    ELSE LET half == Shl(x, k \div 2)
         IN IF half = <<0>> THEN half ELSE Shl(half, k - (k \div 2))

\* a - b for a >= b: a limb borrows exactly when, below it, the first limb
\* in which a and b differ is smaller in a
Sub(a, b) ==
    LET pad == Len(a) - Len(b)
        bb == [i \in 1..Len(a) |-> IF i <= pad THEN 0 ELSE b[i - pad]]
        diff == {i \in 1..Len(a) : a[i] # bb[i]}
        Borrow(i) == LET below == {j \in diff : j > i}
                     IN IF below # {} /\ a[MinOf(below)] < bb[MinOf(below)] THEN 1 ELSE 0
    IN Trim([i \in 1..Len(a) |-> (a[i] - bb[i] - Borrow(i) + Base) % Base])

\* x + 1
Inc(x) ==
    LET low == {i \in 1..Len(x) : x[i] # Base - 1}
    IN IF low = {} THEN <<1>> \o [i \in 1..Len(x) |-> 0]
       ELSE [i \in 1..Len(x) |-> IF i < MaxOf(low) THEN x[i]
                                 ELSE IF i = MaxOf(low) THEN x[i] + 1 ELSE 0]

IsOdd(x) == x[Len(x)] % 2 = 1

RECURSIVE SmallValue(_)
\* the number written by at most BaseDigits decimal digits
SmallValue(ds) ==
    IF ds = <<>> THEN 0
    ELSE 10 * SmallValue(SubSeq(ds, 1, Len(ds) - 1)) + ds[Len(ds)]

\* the number written by the decimal digits ds (values 0 to 9)
FromDigits(ds) ==
    LET n == (Len(ds) + BaseDigits - 1) \div BaseDigits
    IN IF ds = <<>> THEN <<0>>
       ELSE Trim([i \in 1..n |->
                    LET hi == Len(ds) - BaseDigits * (n - i)
                        lo == IF hi - BaseDigits + 1 < 1 THEN 1 ELSE hi - BaseDigits + 1
                    IN SmallValue(SubSeq(ds, lo, hi))])

RECURSIVE Pow10(_)
\* 10^k for k up to BaseDigits
Pow10(k) == IF k = 0 THEN 1 ELSE 10 * Pow10(k - 1)

\* the decimal digits of x, without leading zeros
ToDigits(x) ==
    LET all == [p \in 1..(BaseDigits * Len(x)) |->
                   LET limb == x[((p - 1) \div BaseDigits) + 1]
                       k == (p - 1) % BaseDigits
                   IN (limb \div Pow10(BaseDigits - 1 - k)) % 10]
        nz == {p \in 1..Len(all) : all[p] # 0}
    IN IF nz = {} THEN <<0>> ELSE SubSeq(all, MinOf(nz), Len(all))

-----------------------------------------------------------------------------
(* int(text) and float(text) as CPython parses them: a scan from the left, *)
(* the text accepted only when the scan consumes all of it.                *)

\* s[j] belongs to the digit part that starts at s[i]: a digit, or a single
\* underscore between two digits
InDigitPart(s, i, j) ==
    \/ IsDigit(s[j])
    \/ /\ s[j] = Underscore
       /\ j > i /\ j < Len(s)
       /\ IsDigit(s[j - 1]) /\ IsDigit(s[j + 1])

\* the index after the digit part that starts at i (i itself when there is none)
ScanDigitPart(s, i) ==
    MinOf({j \in i..(Len(s) + 1) : j = Len(s) + 1 \/ ~InDigitPart(s, i, j)})

\* the values of the digits of s[i..j-1], underscores dropped
DigitsOf(s, i, j) ==
    LET ds == SelectSeq(SubSeq(s, i, j - 1), IsDigit)
    IN [k \in 1..Len(ds) |-> DigitVal(ds[k])]

SignChars == {Ord("+"), Minus}

AfterSign(s) == IF s # <<>> /\ s[1] \in SignChars THEN 2 ELSE 1

IsNegative(s) == s # <<>> /\ s[1] = Minus

ValueError == [ok |-> FALSE, val |-> <<>>]

\* sys.get_int_max_str_digits(): int() raises ValueError on more digits
INT_MAX_STR_DIGITS == 4300

\* a Python int: its sign and the decimal digits of its magnitude
IntValue(neg, ds) ==
    LET nz == {i \in 1..Len(ds) : ds[i] # 0}
    IN IF nz = {} THEN [neg |-> FALSE, digits |-> <<0>>]
       ELSE [neg |-> neg, digits |-> SubSeq(ds, MinOf(nz), Len(ds))]

\* int(s), s already stripped: [sign] digitpart
ParseInt(s) ==
    LET i0 == AfterSign(s)
        j == ScanDigitPart(s, i0)
        ds == DigitsOf(s, i0, j)
    IN IF j > i0 /\ j = Len(s) + 1 /\ Len(ds) <= INT_MAX_STR_DIGITS
       THEN [ok |-> TRUE, val |-> IntValue(IsNegative(s), ds)]
       ELSE ValueError

\* An IEEE 754 double: 53 significant bits, binary exponents -1022 to 1023.
\* In decimal its finite values lie below 10^309, and every value below
\* 10^-324 is nearer to zero than to the smallest positive double, 2^-1074.
Double == [bits |-> 53, emin |-> -1022, emax |-> 1023, maxExp10 |-> 308, minExp10 |-> -324]

\* A Python float: kind "nan", "inf" or "finite"; a finite value other than
\* zero is (-1)^neg * mant * 2^exp as the double stores it: mant, given by
\* its decimal digits, has 53 bits, or fewer when exp is -1074 (subnormal);
\* zero has mant <<0>> and exp 0.
Float(kind, neg, mant, exp) == [kind |-> kind, neg |-> neg, mant |-> mant, exp |-> exp]

\* the largest j, among the sums of the steps s, s/2, ..., 1, for which
\* x * 2^j < limit (strict) or x * 2^j <= limit, with x * 2^j; no step of
\* 27 bits per limb that x is shorter than limit can be taken
RECURSIVE Grow(_, _, _, _, _)
Grow(x, limit, strict, s, j) ==
    IF s = 0 THEN [x |-> x, j |-> j]
    ELSE LET fits == /\ s <= 27 * (Len(limit) - Len(x) + 1)
                     /\ Cmp(Shl(x, s), limit) < (IF strict THEN 0 ELSE 1)
         IN IF fits THEN Grow(Shl(x, s), limit, strict, s \div 2, j + s)
            ELSE Grow(x, limit, strict, s \div 2, j)

\* one more bit of a quotient r / d with r < 2d: the bits so far are m
NextBit(b, d) ==
    IF Cmp(b.r, d) >= 0
    THEN [m |-> Inc(Dbl(b.m)), r |-> Dbl(Sub(b.r, d))]
    ELSE [m |-> Dbl(b.m), r |-> Dbl(b.r)]

\* p more bits of the quotient; once the remainder is zero they are all 0
RECURSIVE Bits(_, _, _)
Bits(b, p, d) ==
    IF p = 0 THEN b
    ELSE IF p = 1 THEN NextBit(b, d)
    ELSE LET half == Bits(b, p \div 2, d)
         IN IF half.r = <<0>>
            THEN [m |-> Shl(half.m, p - (p \div 2)), r |-> half.r]
            ELSE Bits(half, p - (p \div 2), d)

\* the double nearest to n / d (n, d > 0), ties to the even significand
NearestDouble(neg, n, d) ==
    LET up == Grow(d, n, FALSE, 1024, 0)
        down == Grow(n, d, TRUE, 1024, 0)
        \* n / d = (nn / dd) * 2^e with dd <= nn < 2 dd
        e == IF Cmp(n, d) >= 0 THEN up.j ELSE 0 - (down.j + 1)
        nn == IF Cmp(n, d) >= 0 THEN n ELSE Dbl(down.x)
        dd == IF Cmp(n, d) >= 0 THEN up.x ELSE d
        \* the exponent of the last bit of a subnormal double
        qmin == Double.emin - Double.bits + 1
        \* the bits kept and the exponent of the last of them
        p == IF e >= Double.emin THEN Double.bits ELSE e - qmin + 1
        q == e - p + 1
        b == Bits([m |-> <<0>>, r |-> nn], p, dd)
        roundUp == \/ Cmp(b.r, dd) > 0
                   \/ Cmp(b.r, dd) = 0 /\ IsOdd(b.m)
        m == IF roundUp THEN Inc(b.m) ELSE b.m
        \* rounding up may carry into a 54th bit
        carry == m = Shl(<<1>>, Double.bits)
        mant == IF carry THEN Halve(m) ELSE m
        exp == IF carry THEN q + 1 ELSE q
    IN IF e < qmin - 1 THEN Float("finite", neg, <<0>>, 0)
       ELSE IF e > Double.emax THEN Float("inf", neg, <<0>>, 0)
       ELSE IF mant = <<0>> THEN Float("finite", neg, <<0>>, 0)
       ELSE IF exp + Double.bits - 1 > Double.emax THEN Float("inf", neg, <<0>>, 0)
       ELSE Float("finite", neg, ToDigits(mant), exp)

\* the exponent written by the digits ds; one of more than seven digits is
\* beyond every double, whatever the mantissa of a text
ExponentValue(ds) ==
    LET nz == {i \in 1..Len(ds) : ds[i] # 0}
        sig == IF nz = {} THEN <<>> ELSE SubSeq(ds, MinOf(nz), Len(ds))
    IN IF Len(sig) > 7 THEN Pow10(7) ELSE SmallValue(sig)

\* float() of the decimal (-1)^neg * ds * 10^e10, ds the digits as written
MakeFloat(neg, ds, e10) ==
    LET nz == {i \in 1..Len(ds) : ds[i] # 0}
        sig == SubSeq(ds, MinOf(nz), MaxOf(nz))
        e == e10 + (Len(ds) - MaxOf(nz))
        adj == Len(sig) - 1 + e
    IN IF nz = {} THEN Float("finite", neg, <<0>>, 0)
       ELSE IF adj > Double.maxExp10 THEN Float("inf", neg, <<0>>, 0)
       ELSE IF adj < Double.minExp10 THEN Float("finite", neg, <<0>>, 0)
       ELSE IF e >= 0
       THEN NearestDouble(neg, FromDigits(sig \o [i \in 1..e |-> 0]), <<1>>)
       ELSE NearestDouble(neg, FromDigits(sig), FromDigits(<<1>> \o [i \in 1..(0 - e) |-> 0]))

InfWords == {Str(<<"i", "n", "f">>), Str(<<"i", "n", "f", "i", "n", "i", "t", "y">>)}

NanWords == {Str(<<"n", "a", "n">>)}

\* float(s), s already stripped:
\* [sign] (inf | infinity | nan | digits [. [digits]] [exp] | . digits [exp])
ParseFloat(s) ==
    LET i0 == AfterSign(s)
        word == LowerAscii(SubSeq(s, i0, Len(s)))
        a == ScanDigitPart(s, i0)
        hasDot == a <= Len(s) /\ s[a] = Dot
        b0 == IF hasDot THEN a + 1 ELSE a
        b == IF hasDot THEN ScanDigitPart(s, b0) ELSE a
        hasExp == b <= Len(s) /\ s[b] \in {Ord("e"), Ord("E")}
        e0 == IF b + 1 <= Len(s) /\ s[b + 1] \in SignChars THEN b + 2 ELSE b + 1
        c == IF hasExp THEN ScanDigitPart(s, e0) ELSE b
        expNeg == hasExp /\ b + 1 <= Len(s) /\ s[b + 1] = Minus
        expVal == IF hasExp THEN ExponentValue(DigitsOf(s, e0, c)) ELSE 0
        frac == DigitsOf(s, b0, b)
        mantissa == DigitsOf(s, i0, a) \o frac
        exponent == (IF expNeg THEN 0 - expVal ELSE expVal) - Len(frac)
    IN IF word \in InfWords
       THEN [ok |-> TRUE, val |-> Float("inf", IsNegative(s), <<0>>, 0)]
       ELSE IF word \in NanWords
       THEN [ok |-> TRUE, val |-> Float("nan", IsNegative(s), <<0>>, 0)]
       ELSE IF (a > i0 \/ b > b0) /\ (hasExp => c > e0) /\ c = Len(s) + 1
       THEN [ok |-> TRUE, val |-> MakeFloat(IsNegative(s), mantissa, exponent)]
       ELSE ValueError

-----------------------------------------------------------------------------
(* rag_api._coerce_answer                                                  *)

Pending == [type |-> "pending", val |-> <<>>]

\* a variant that tries float() before int()
CoerceFloatFirst(raw) ==
    LET stripped == Strip(raw)
        asFloat == ParseFloat(ReplaceComma(stripped))
        asInt == ParseInt(stripped)
    IN IF stripped = <<>> THEN [type |-> "str", val |-> <<>>]
       ELSE IF asFloat.ok THEN [type |-> "float", val |-> asFloat.val]
       ELSE IF asInt.ok THEN [type |-> "int", val |-> asInt.val]
       ELSE [type |-> "str", val |-> stripped]

Coerce(raw) ==
    LET stripped == Strip(raw)
        asInt == ParseInt(stripped)
        asFloat == ParseFloat(ReplaceComma(stripped))
    IN IF stripped = <<>> THEN [type |-> "str", val |-> <<>>]
       ELSE IF asInt.ok THEN [type |-> "int", val |-> asInt.val]
       ELSE IF asFloat.ok THEN [type |-> "float", val |-> asFloat.val]
       ELSE [type |-> "str", val |-> stripped]


\* the longest answer enumerated character by character
MaxAnswerLen == 3

\* every answer of up to MaxAnswerLen characters of the alphabet below,
\* longer answers of the kinds the chat model gives, answers with other white
\* space (CR, FF, VT, NBSP, EM SPACE), with digits of other scripts
\* (ARABIC-INDIC, FULLWIDTH), and decimals that are not doubles
AnswerInputs ==
    UNION { [1..n -> { Ord(c) : c \in {"0", "1", "5", "-", "+", ".", ",", " ", "e", "_", "a"} }] :
            n \in 0..MaxAnswerLen }
    \cup
    { Str(<<"n", "a", "n">>), Str(<<"-", "I", "n", "f">>),
        Str(<<"i", "n", "f", "i", "n", "i", "t", "y">>),
        Str(<<"1", "e", "9", "9", "9">>), <<9, 52, 50, 10>>,
        Str(<<" ", "1", ",", "5", " ">>), Str(<<"1", ",", "0", "0", "0">>),
        Str(<<"1", ",", "5", ",", "3">>), Str(<<"1", "_", "0", "0", "0">>),
        Str(<<"1", "0", " ", "0", "0", "0">>), Str(<<"-", "0", ".", "0">>),
        Str(<<"2", ".", "5", "E", "-", "3">>), Str(<<"1", "5", " ", "d", "a", "y", "s">>),
        Str(<<"I", " ", "d", "o", "n", "'", "t">>),
        <<51, 13>>, <<13, 10, 51, 13, 10>>, <<12, 51>>, <<51, 11>>, <<160, 51>>,
        <<8195, 51, 8195>>, <<1635>>, <<65297, 65298>>, <<1633, 46, 1637>>,
        <<1633, 44, 1637>>, <<51, 8203>>,
        Str(<<"1", ".", "2", "e", "-", "3", "2", "3">>),
        Str(<<"1", "e", "-", "3", "2", "4">>), Str(<<"3", "e", "-", "3", "2", "4">>),
        Str(<<"1", ".", "0", "0", "0", "0", "0", "0", "0", "0", "0", "0", "0", "0", "0",
              "0", "0", "0", "1">>),
        Str(<<"9", "0", "0", "7", "1", "9", "9", "2", "5", "4", "7", "4", "0", "9", "9", "3">>),
        Str(<<"9", "0", "0", "7", "1", "9", "9", "2", "5", "4", "7", "4", "0", "9", "9", "3",
              ".", "0">>),
        Str(<<"0", ".", "1">>), Str(<<"1", ".", "8", "e", "3", "0", "8">>),
        Str(<<"1", ".", "7", "9", "7", "6", "9", "3", "1", "3", "4", "8", "6", "2", "3", "1",
              "5", "7", "e", "3", "0", "8">>) }

\* _coerce_answer(raw_answer) is called and returns
CoerceAnswer ==
    /\ coerced.type = "pending"
    /\ coerced' = Coerce(raw_answer)
    /\ UNCHANGED raw_answer
    /\ UNCHANGED <<chunksIn, structured, metaDone, tree, documents, warnings, loadDone>>
    /\ UNCHANGED <<requestVars, diskVars>>

-----------------------------------------------------------------------------
(* rag_pipeline.collect_chunk_metadata                                     *)
(*                                                                         *)
(* An optional value is <<>> (None) or <<v>>.  A value of a chunk's         *)
(* metadata, which is whatever the vector store holds, is None, an int or  *)
(* a str; a key the metadata lacks reads as None (dict.get).               *)

None == <<>>

Some(v) == <<v>>

PyNone == [type |-> "NoneType", int |-> 0, str |-> <<>>]

PyInt(n) == [type |-> "int", int |-> n, str |-> <<>>]

PyStr(s) == [type |-> "str", int |-> 0, str |-> s]

\* a variant whose deduplication key is the document name alone
ChunkKeyNameOnly(chunk) == <<chunk.document_name>>

\* chunk.metadata.get("document_name"), chunk.metadata.get("page_number")
ChunkKey(chunk) == <<chunk.document_name, chunk.page_number>>

RECURSIVE CollectFrom(_, _, _)
CollectFrom(chunks, seen, acc) ==
    IF chunks = <<>> THEN acc
    ELSE LET chunk == Head(chunks)
             key == ChunkKey(chunk)
         IN IF key \in seen
            THEN CollectFrom(Tail(chunks), seen, acc)
            ELSE CollectFrom(Tail(chunks), seen \cup {key},
                             Append(acc, [document_name |-> chunk.document_name,
                                          page_number |-> chunk.page_number]))

collect_chunk_metadata(chunks) == CollectFrom(chunks, {}, <<>>)

\* the longest list of retrieved chunks enumerated
MaxChunks == 3

CivilPdf == Str(<<"c", "i", "v", "i", "l", ".", "p", "d", "f">>)

TaxTxt == Str(<<"t", "a", "x", ".", "t", "x", "t">>)

\* the lists of up to MaxChunks chunks whose document name is missing, one
\* of two names or a number, and whose page number is missing, 1 or 2
ChunkLists ==
    UNION { [1..n -> [document_name : {PyNone, PyStr(CivilPdf), PyStr(TaxTxt), PyInt(7)},
                      page_number : {PyNone, PyInt(1), PyInt(2)}]] : n \in 0..MaxChunks }

\* collect_chunk_metadata(chunksIn) is called and returns
CollectMetadata ==
    /\ ~metaDone
    /\ structured' = collect_chunk_metadata(chunksIn)
    /\ metaDone' = TRUE
    /\ UNCHANGED chunksIn
    /\ UNCHANGED <<raw_answer, coerced, tree, documents, warnings, loadDone>>
    /\ UNCHANGED <<requestVars, diskVars>>

-----------------------------------------------------------------------------
(* rag_data: load_text_document, load_pdf_document, load_legal_documents   *)
(*                                                                         *)
(* A path below DATA_DIR is the sequence of its components.  An entry of   *)
(* the directory tree is [path, is_dir, readable, text, pages]: text is    *)
(* what read_text returns, pages what PdfReader finds (the text of each    *)
(* page, or None), and readable is FALSE when reading the file raises      *)
(* (also when pypdf is not installed, for a PDF).                          *)

MIN_CHARS_PER_PAGE == 50

SUPPORTED_TEXT_EXTENSIONS == {Str(<<".", "t", "x", "t">>), Str(<<".", "m", "d">>)}

PdfSuffix == Str(<<".", "p", "d", "f">>)

\* DATA_DIR relative to BASE_DIR
DATA_DIR == <<Str(<<"d", "a", "t", "a">>), Str(<<"l", "a", "w", "s">>)>>

\* the order of str: by code point, a proper prefix first
StrLess(a, b) ==
    \E k \in 1..Len(b) :
        /\ \A i \in 1..(k - 1) : i <= Len(a) /\ a[i] = b[i]
        /\ k > Len(a) \/ (k <= Len(a) /\ a[k] < b[k])

\* the order of Path: component by component, a parent before what it holds
PathLess(p, q) ==
    \E k \in 1..Len(q) :
        /\ \A i \in 1..(k - 1) : i <= Len(p) /\ p[i] = q[i]
        /\ k > Len(p) \/ (k <= Len(p) /\ StrLess(p[k], q[k]))

\* path.name
FileName(entry) == entry.path[Len(entry.path)]

\* path.suffix: the name from its last dot, unless that dot is the first or
\* the last character of the name
Suffix(name) ==
    LET dots == {i \in 1..Len(name) : name[i] = Dot}
    IN IF dots # {} /\ MaxOf(dots) > 1 /\ MaxOf(dots) < Len(name)
       THEN SubSeq(name, MaxOf(dots), Len(name))
       ELSE <<>>

\* suffix.lower()
SuffixLower(suffix) == Lower(suffix)

\* suffix.lstrip(".")
LStripDots(s) ==
    LET kept == {i \in 1..Len(s) : s[i] # Dot}
    IN IF kept = {} THEN <<>> ELSE SubSeq(s, MinOf(kept), Len(s))

\* "/".join(parts)
RECURSIVE JoinPath(_)
JoinPath(parts) ==
    IF parts = <<>> THEN <<>>
    ELSE IF Len(parts) = 1 THEN parts[1]
    ELSE parts[1] \o <<Ord("/")>> \o JoinPath(Tail(parts))

\* str(path.relative_to(BASE_DIR))
RelativePath(entry) == JoinPath(DATA_DIR \o entry.path)

Document(text, name, source, page, type) ==
    [page_content |-> text,
     metadata |-> [document_name |-> name, source_path |-> source,
                   page_number |-> page, source_type |-> type]]

Loaded(docs) == [raised |-> FALSE, docs |-> docs]

Raised == [raised |-> TRUE, docs |-> <<>>]

load_text_document(entry) ==
    LET text == Strip(entry.text)
        kind == LStripDots(SuffixLower(Suffix(FileName(entry))))
    IN IF ~entry.readable THEN Raised
       ELSE IF Len(text) < MIN_CHARS_PER_PAGE THEN Loaded(<<>>)
       ELSE Loaded(<<Document(text, FileName(entry), RelativePath(entry), 1,
                              IF kind = <<>> THEN Str(<<"t", "e", "x", "t">>) ELSE kind)>>)

\* page.extract_text() or ""
PageText(page) == IF page = None THEN <<>> ELSE page[1]

\* a variant that numbers the kept pages 1, 2, ... in the order kept
RECURSIVE PdfPagesRenumbered(_, _, _)
PdfPagesRenumbered(entry, page_index, docs) ==
    IF page_index > Len(entry.pages) THEN docs
    ELSE LET text == Strip(PageText(entry.pages[page_index]))
         IN IF Len(text) < MIN_CHARS_PER_PAGE
            THEN PdfPagesRenumbered(entry, page_index + 1, docs)
            ELSE PdfPagesRenumbered(entry, page_index + 1,
                     Append(docs, Document(text, FileName(entry), RelativePath(entry),
                                           Len(docs) + 1, Str(<<"p", "d", "f">>))))

\* the loop over enumerate(reader.pages, start=1)
RECURSIVE PdfPages(_, _, _)
PdfPages(entry, page_index, docs) ==
    IF page_index > Len(entry.pages) THEN docs
    ELSE LET text == Strip(PageText(entry.pages[page_index]))
         IN IF Len(text) < MIN_CHARS_PER_PAGE
            THEN PdfPages(entry, page_index + 1, docs)
            ELSE PdfPages(entry, page_index + 1,
                     Append(docs, Document(text, FileName(entry), RelativePath(entry),
                                           page_index, Str(<<"p", "d", "f">>))))

load_pdf_document(entry) ==
    IF ~entry.readable THEN Raised ELSE Loaded(PdfPages(entry, 1, <<>>))

\* sorted(): insertion of each listed entry at its place in path order
RECURSIVE InsertByPath(_, _)
InsertByPath(entry, sorted) ==
    IF sorted = <<>> THEN <<entry>>
    ELSE IF PathLess(Head(sorted).path, entry.path)
    THEN <<Head(sorted)>> \o InsertByPath(entry, Tail(sorted))
    ELSE <<entry>> \o sorted

RECURSIVE SortByPath(_)
SortByPath(listing) ==
    IF listing = <<>> THEN <<>>
    ELSE InsertByPath(Head(listing), SortByPath(Tail(listing)))

Walk(docs, log) == [documents |-> docs, log |-> log]

\* a variant in which a file that fails to load ends the walk
RECURSIVE WalkFilesStopOnError(_, _, _)
WalkFilesStopOnError(files, docs, log) ==
    IF files = <<>> THEN Walk(docs, log)
    ELSE LET file_path == Head(files)
             suffix == SuffixLower(Suffix(FileName(file_path)))
             loaded == IF suffix = PdfSuffix THEN load_pdf_document(file_path)
                       ELSE load_text_document(file_path)
         IN IF file_path.is_dir THEN WalkFilesStopOnError(Tail(files), docs, log)
            ELSE IF suffix # PdfSuffix /\ suffix \notin SUPPORTED_TEXT_EXTENSIONS
            THEN WalkFilesStopOnError(Tail(files), docs,
                     Append(log, <<"unsupported", FileName(file_path)>>))
            ELSE IF loaded.raised
            THEN Walk(docs, Append(log, <<"failed", FileName(file_path)>>))
            ELSE IF loaded.docs = <<>>
            THEN WalkFilesStopOnError(Tail(files), docs,
                     Append(log, <<"no text", FileName(file_path)>>))
            ELSE WalkFilesStopOnError(Tail(files), docs \o loaded.docs,
                     Append(log, <<"added", FileName(file_path)>>))

\* the loop over sorted(DATA_DIR.rglob("*"))
RECURSIVE WalkFiles(_, _, _)
WalkFiles(files, docs, log) ==
    IF files = <<>> THEN Walk(docs, log)
    ELSE LET file_path == Head(files)
             suffix == SuffixLower(Suffix(FileName(file_path)))
             loaded == IF suffix = PdfSuffix THEN load_pdf_document(file_path)
                       ELSE load_text_document(file_path)
         IN IF file_path.is_dir THEN WalkFiles(Tail(files), docs, log)
            ELSE IF suffix # PdfSuffix /\ suffix \notin SUPPORTED_TEXT_EXTENSIONS
            THEN WalkFiles(Tail(files), docs,
                     Append(log, <<"unsupported", FileName(file_path)>>))
            ELSE IF loaded.raised
            THEN WalkFiles(Tail(files), docs, Append(log, <<"failed", FileName(file_path)>>))
            ELSE IF loaded.docs = <<>>
            THEN WalkFiles(Tail(files), docs, Append(log, <<"no text", FileName(file_path)>>))
            ELSE WalkFiles(Tail(files), docs \o loaded.docs,
                     Append(log, <<"added", FileName(file_path)>>))

\* listing is DATA_DIR.rglob("*"), in the order the file system gives it
load_legal_documents(listing) ==
    IF listing = <<>> THEN Walk(<<>>, <<<<"empty", <<>>>>>>)
    ELSE WalkFiles(SortByPath(listing), <<>>, <<>>)

\* the most entries of DATA_DIR enumerated
MaxFiles == 3

\* a text of lead white-space characters (no-break spaces), core letters and
\* trail white-space characters (line feeds)
TextOf(lead, core, trail) ==
    [i \in 1..(lead + core + trail) |->
        IF i <= lead THEN 160 ELSE IF i <= lead + core THEN Ord("x") ELSE 10]

Dir(path) == [path |-> path, is_dir |-> TRUE, readable |-> TRUE, text |-> <<>>, pages |-> <<>>]

TextFile(path, readable, text) ==
    [path |-> path, is_dir |-> FALSE, readable |-> readable, text |-> text, pages |-> <<>>]

PdfFile(path, readable, pages) ==
    [path |-> path, is_dir |-> FALSE, readable |-> readable, text |-> <<>>, pages |-> pages]

DirA == Str(<<"a">>)

LawTxt == Str(<<"l", "a", "w", ".", "t", "x", "t">>)

\* the entries a data directory holds: subdirectories (one named like a text
\* file), two files of the same name, suffixes in upper and mixed case, PDF
\* files page by page, files that cannot be read, a file of another type (its
\* suffix is the Greek capitals tau, chi, tau, which lower to Greek letters), a
\* file without a suffix, and a name that sorts between "a" and what "a" holds
\* when paths are compared as strings
Catalogue ==
    { Dir(<<DirA>>), Dir(<<Str(<<"d", ".", "t", "x", "t">>)>>),
      TextFile(<<DirA, LawTxt>>, TRUE, TextOf(2, 50, 1)),
      TextFile(<<LawTxt>>, TRUE, TextOf(0, 60, 0)),
      TextFile(<<Str(<<"d", ".", "t", "x", "t">>),
                 Str(<<"n", "o", "t", "e", "s", ".", "M", "D">>)>>,
               TRUE, TextOf(3, 49, 3)),
      TextFile(<<Str(<<"a", "-", "b", ".", "m", "d">>)>>, TRUE, TextOf(0, 55, 0)),
      TextFile(<<Str(<<"t", "a", "x", ".", "T", "x", "t">>)>>, FALSE, TextOf(0, 80, 0)),
      TextFile(<<Str(<<".", "t", "x", "t">>)>>, TRUE, TextOf(0, 80, 0)),
      TextFile(<<Str(<<"f", "o", "r", "m", ".">>) \o <<932, 935, 932>>>>, TRUE, TextOf(0, 99, 0)),
      PdfFile(<<CivilPdf>>, TRUE,
              <<Some(TextOf(0, 60, 1)), Some(TextOf(4, 49, 4)), Some(TextOf(1, 70, 0))>>),
      PdfFile(<<Str(<<"C", "o", "d", "e", ".", "P", "D", "F">>)>>, TRUE,
              <<None, Some(TextOf(0, 51, 0))>>),
      PdfFile(<<Str(<<"b", "a", "d", ".", "p", "d", "f">>)>>, FALSE,
              <<Some(TextOf(0, 90, 0))>>) }

\* the directory trees of up to MaxFiles entries: with every entry, the
\* directory that holds it
Trees ==
    { S \in SUBSET Catalogue :
        /\ Cardinality(S) <= MaxFiles
        /\ \A e \in S : Len(e.path) > 1 =>
              \E d \in S : d.is_dir /\ d.path = SubSeq(e.path, 1, Len(e.path) - 1) }

\* the entries of a tree in every order
Listings(S) ==
    { f \in [1..Cardinality(S) -> S] : \A i, j \in 1..Cardinality(S) : f[i] = f[j] => i = j }

\* load_legal_documents() is called and returns
LoadDocuments ==
    /\ ~loadDone
    /\ LET walk == load_legal_documents(tree)
       IN /\ documents' = walk.documents
          /\ warnings' = walk.log
    /\ loadDone' = TRUE
    /\ UNCHANGED tree
    /\ UNCHANGED <<raw_answer, coerced, chunksIn, structured, metaDone>>
    /\ UNCHANGED <<requestVars, diskVars>>

-----------------------------------------------------------------------------
(* rag_data.build_vector_store, step by step: between two steps the server *)
(* threads and whoever removes PERSIST_DIR may act.                        *)

\* the worker threads of the server; the command-line script has the first
Threads == {1, 2}

NotAbsent == [now |-> FALSE, whole |-> FALSE]

\* absent, once the directory is dir
Track(dir) ==
    [u \in Threads |-> [now |-> absent[u].now /\ ~dir.exists, whole |-> absent[u].whole]]

\* absent, once the call of query_rag of thread t has ended
TrackEnd(t, dir) ==
    [Track(dir) EXCEPT ![t] = [now |-> FALSE, whole |-> absent[t].whole \/ Track(dir)[t].now]]

Directory(exists, chunks) == [exists |-> exists, chunks |-> chunks]

\* RecursiveCharacterTextSplitter(chunk_size=1200, add_start_index=True): a
\* page shorter than the chunk size, as all pages of the model are, is one
\* chunk, at start_index 0, with the page's metadata
SplitDocuments(docs) ==
    [i \in 1..Len(docs) |->
        [page_content |-> docs[i].page_content,
         metadata |-> [document_name |-> docs[i].metadata.document_name,
                       source_path |-> docs[i].metadata.source_path,
                       page_number |-> docs[i].metadata.page_number,
                       source_type |-> docs[i].metadata.source_type,
                       start_index |-> 0]]]

\* a variant of rmtree that removes the directory entry and keeps the files
RmtreeKeepingFiles(dir) == Directory(FALSE, dir.chunks)

\* shutil.rmtree(PERSIST_DIR)
Rmtree(dir) == Directory(FALSE, <<>>)

\* PERSIST_DIR.mkdir(parents=True, exist_ok=True), and what opening a Chroma
\* client on the directory does when it is missing
Mkdir(dir) == Directory(TRUE, dir.chunks)

NoIngest == [pc |-> "idle", documents |-> <<>>, chunks |-> <<>>, found_chunks |-> FALSE]

\* lines 105-117: the documents of a data directory, loaded and split
LoadAndSplit(listing) ==
    LET docs == load_legal_documents(listing).documents
    IN [documents |-> docs, chunks |-> SplitDocuments(docs)]

\* what lines 105-117 compute on the data directories an ingestion run
\* finds: an empty one, one without a loadable page, and five that hold different documents
IngestRuns ==
    { LoadAndSplit(listing) : listing \in
    { <<>>,
        <<TextFile(<<Str(<<"f", "o", "r", "m", ".", "d", "o", "c", "x">>)>>, TRUE,
                   TextOf(0, 99, 0)),
          TextFile(<<Str(<<"n", "o", "t", "e", "s", ".", "M", "D">>)>>, TRUE, TextOf(3, 49, 3)),
          PdfFile(<<Str(<<"s", "c", "a", "n", ".", "p", "d", "f">>)>>, FALSE,
                  <<Some(TextOf(0, 90, 0))>>)>>,
        <<TextFile(<<LawTxt>>, TRUE, TextOf(2, 50, 1))>>,
        <<TextFile(<<TaxTxt>>, TRUE, TextOf(0, 64, 0))>>,
        <<TextFile(<<TaxTxt>>, TRUE, TextOf(1, 55, 0)),
          TextFile(<<LawTxt>>, TRUE, TextOf(0, 58, 2))>>,
        <<PdfFile(<<CivilPdf>>, TRUE,
                  <<Some(TextOf(0, 60, 1)), Some(TextOf(4, 49, 4)), Some(TextOf(1, 70, 0))>>)>>,
        <<TextFile(<<DirA, LawTxt>>, TRUE, TextOf(0, 52, 0)), Dir(<<DirA>>),
          PdfFile(<<Str(<<"C", "o", "d", "e", ".", "P", "D", "F">>)>>, TRUE,
                  <<None, Some(TextOf(0, 51, 0))>>)>> } }

\* lines 105-124: the documents are loaded and split, and the embeddings
\* client is constructed, which may raise; nothing on disk has changed yet
IngestStart(runs) ==
    /\ ingest.pc \in {"idle", "returned", "raised"}
    /\ \E run \in runs, constructed \in BOOLEAN :
          ingest' = [pc |-> IF run.documents = <<>> THEN "returned"
                            ELSE IF constructed THEN "exists" ELSE "raised",
                     documents |-> run.documents,
                     chunks |-> run.chunks,
                     found_chunks |-> persist_dir.chunks # <<>>]
    /\ absent' = Track(persist_dir)
    /\ UNCHANGED <<functionVars, requestVars>>
    /\ UNCHANGED persist_dir

\* line 126
IngestExists ==
    /\ ingest.pc = "exists"
    /\ ingest' = [ingest EXCEPT !.pc = IF persist_dir.exists THEN "rmtree" ELSE "mkdir"]
    /\ absent' = Track(persist_dir)
    /\ UNCHANGED <<functionVars, requestVars>>
    /\ UNCHANGED persist_dir

\* lines 127-128; rmtree raises FileNotFoundError when the directory has
\* been removed since line 126
IngestRmtree ==
    /\ ingest.pc = "rmtree"
    /\ IF persist_dir.exists
       THEN /\ persist_dir' = Rmtree(persist_dir)
            /\ ingest' = [ingest EXCEPT !.pc = "mkdir"]
       ELSE /\ ingest' = [ingest EXCEPT !.pc = "raised"]
            /\ UNCHANGED persist_dir
    /\ absent' = Track(persist_dir')
    /\ UNCHANGED <<functionVars, requestVars>>

\* line 129
IngestMkdir ==
    /\ ingest.pc = "mkdir"
    /\ persist_dir' = Mkdir(persist_dir)
    /\ ingest' = [ingest EXCEPT !.pc = "open"]
    /\ absent' = Track(persist_dir')
    /\ UNCHANGED <<functionVars, requestVars>>

\* lines 131-136, first half: Chroma.from_documents opens the collection in
\* the directory (creating the directory when it has been removed since line
\* 129), or raises
IngestOpen ==
    /\ ingest.pc = "open"
    /\ \/ /\ persist_dir' = Mkdir(persist_dir)
          /\ ingest' = [ingest EXCEPT !.pc = "add"]
       \/ /\ ingest' = [ingest EXCEPT !.pc = "raised"]
          /\ UNCHANGED persist_dir
    /\ absent' = Track(persist_dir')
    /\ UNCHANGED <<functionVars, requestVars>>

\* lines 131-145, second half: the chunks are embedded and added to the
\* collection in one batch, or the embedding API raises; then the sanity
\* search, whose failure is only printed.  When the directory has been
\* removed under the open collection, the write raises or is lost.
IngestAdd ==
    /\ ingest.pc = "add"
    /\ \/ /\ persist_dir.exists
          /\ persist_dir' = Directory(TRUE, persist_dir.chunks \o ingest.chunks)
          /\ ingest' = [ingest EXCEPT !.pc = "returned"]
       \/ /\ ~persist_dir.exists
          /\ ingest' = [ingest EXCEPT !.pc = "returned"]
          /\ UNCHANGED persist_dir
       \/ /\ ingest' = [ingest EXCEPT !.pc = "raised"]
          /\ UNCHANGED persist_dir
    /\ absent' = Track(persist_dir')
    /\ UNCHANGED <<functionVars, requestVars>>

\* PERSIST_DIR is removed from outside
RemoveDir ==
    /\ persist_dir.exists
    /\ persist_dir' = Directory(FALSE, <<>>)
    /\ absent' = Track(persist_dir')
    /\ UNCHANGED <<functionVars, requestVars>>
    /\ UNCHANGED ingest

-----------------------------------------------------------------------------
(* rag_pipeline: the lazily initialised handles and query_rag, as the      *)
(* steps of a thread.  A handle is None or Some(n), the n-th object of its *)
(* kind constructed in the process.                                        *)

NoGlobals == [embeddings |-> None, vector_store |-> None, llm |-> None]

Exception(cls, msg) == [cls |-> cls, msg |-> msg]

NoException == Exception("", "")

MissingStoreError ==
    Exception("FileNotFoundError",
              "Vector store directory PERSIST_DIR is missing. Run rag_data.py to build it.")

\* what the OpenAI and Chroma clients raise: a failed API call, and a file
\* of the store that has gone
LibraryErrors == {Exception("RuntimeError", "Connection error."),
                  Exception("FileNotFoundError", "No such file or directory: 'chroma.sqlite3'")}

\* what the constructors of the clients raise
ConstructorErrors == {Exception("ValueError", "Could not create the client.")}

\* "Я не знаю"
IDontKnow == <<1071, 32, 1085, 1077, 32, 1079, 1085, 1072, 1102>>

\* a retrieved chunk, by the two metadata values the callers read
Hit(name, page) == [document_name |-> name, page_number |-> page]

\* the most chunks a similarity search returns
MaxHits == 2

\* the lists of up to MaxHits chunks of two documents
HitLists ==
    UNION { [1..m -> {Hit(PyStr(CivilPdf), PyInt(1)), Hit(PyStr(TaxTxt), PyNone)}] :
            m \in 0..MaxHits }

Returns(v) == [exc |-> NoException, val |-> v]

Raises(e) == [exc |-> e, val |-> <<>>]

\* what the chat model answers: an integer, a decimal with a comma, none of
\* the two, only white space
ReplyTexts ==
    { Str(<<"3">>), Str(<<" ", "1", ",", "5", " ">>), <<160, 1053, 1077, 1090, 10>>, Str(<<" ">>) }

\* the locals of query_endpoint, or of ask_question, and of query_rag
NoFrame == [caller |-> "", fallback_k |-> 0, top_k |-> 0, retrieved |-> <<>>,
            answer |-> <<>>, chunks |-> <<>>]

\* passed: the top_k of every call of query_rag of the request; of the
\* current call: whether the search has returned and what, how many times the
\* chat model was called, whether the call has returned, whether it found
\* PERSIST_DIR missing at line 54; and the exception that ended the request
NoCall == [passed |-> <<>>, searched |-> FALSE, found |-> <<>>, llm_calls |-> 0,
           returned |-> FALSE, found_missing |-> FALSE, raised |-> NoException]

HttpResponse(status, detail, body) == [status |-> status, detail |-> detail, body |-> body]

NoResponse == HttpResponse(0, "", None)

\* a variant that maps every exception to 503
HttpErrorAlways503(exc) == HttpResponse(503, exc.msg, None)

\* rag_api lines 70-73
HttpError(exc) ==
    IF exc.cls = "FileNotFoundError" THEN HttpResponse(503, exc.msg, None)
    ELSE HttpResponse(500, exc.msg, None)

\* the questions of query_rag.py, by their number
CliQuestions == <<1, 2, 3, 4>>

\* an exception leaves query_rag in thread t, whose call record the step
\* leaves as c.  query_endpoint turns the exception into an HTTP error (lines
\* 70-73).  ask_question prints a FileNotFoundError and returns, so that the
\* loop goes on (lines 12-14), and lets any other exception end the script.
Raise(t, exc, c) ==
    /\ call' = [call EXCEPT ![t] = [c EXCEPT !.raised = exc]]
    /\ absent' = TrackEnd(t, persist_dir)
    /\ IF frame[t].caller = "ask_question"
       THEN /\ pc' = [pc EXCEPT ![t] = IF exc.cls = "FileNotFoundError" THEN "main"
                                      ELSE "crashed"]
            /\ idx' = [idx EXCEPT ![t] = IF exc.cls = "FileNotFoundError" THEN @ + 1 ELSE @]
            /\ UNCHANGED http
       ELSE /\ pc' = [pc EXCEPT ![t] = "done"]
            /\ http' = [http EXCEPT ![t] = HttpError(exc)]
            /\ UNCHANGED idx

\* thread t goes on to the step `next` of query_rag
Goto(t, next) ==
    /\ pc' = [pc EXCEPT ![t] = next]
    /\ absent' = Track(persist_dir)
    /\ UNCHANGED <<idx, http>>

\* query_rag(question, top_k) is called: lines 88 and 53, the first look at
\* _vector_store
EnterQueryRag(t, top_k) ==
    /\ frame' = [frame EXCEPT ![t].top_k = top_k, ![t].retrieved = <<>>,
                              ![t].answer = <<>>, ![t].chunks = <<>>]
    /\ call' = [call EXCEPT ![t] = [NoCall EXCEPT !.passed = Append(call[t].passed, top_k)]]
    /\ pc' = [pc EXCEPT ![t] = IF globals.vector_store = None THEN "dir_test" ELSE "search"]
    /\ absent' = [Track(persist_dir) EXCEPT ![t].now = ~persist_dir.exists]

\* a variant that constructs the store without a look at the directory
DirTestUnchecked(exists) == "emb_test"

\* line 54: where get_vector_store goes on
DirTest(exists) == IF exists THEN "emb_test" ELSE "raise"

\* lines 54-57
TestDirectory(t) ==
    /\ pc[t] = "dir_test"
    /\ LET c == [call[t] EXCEPT !.found_missing = ~persist_dir.exists]
       IN IF DirTest(persist_dir.exists) = "raise"
          THEN Raise(t, MissingStoreError, c)
          ELSE /\ Goto(t, DirTest(persist_dir.exists))
               /\ call' = [call EXCEPT ![t] = c]
    /\ UNCHANGED <<functionVars, globals, built, payload, responses, frame, persist_dir, ingest>>

\* line 42, reached from line 60
TestEmbeddings(t) ==
    /\ pc[t] = "emb_test"
    /\ Goto(t, IF globals.embeddings = None THEN "emb_new" ELSE "vs_new")
    /\ UNCHANGED <<functionVars, globals, built, payload, responses, frame, call, persist_dir,
                   ingest>>

\* lines 43-47: OpenAIEmbeddings(...) returns and is assigned, or raises
NewEmbeddings(t) ==
    /\ pc[t] = "emb_new"
    /\ \/ /\ globals' = [globals EXCEPT !.embeddings = Some(built.embeddings + 1)]
          /\ built' = [built EXCEPT !.embeddings = @ + 1]
          /\ Goto(t, "vs_new")
          /\ UNCHANGED call
       \/ /\ \E e \in ConstructorErrors : Raise(t, e, call[t])
          /\ UNCHANGED <<globals, built>>
    /\ UNCHANGED <<functionVars, payload, responses, frame, persist_dir, ingest>>

\* lines 58-62: Chroma(...) opens the collection, creating the directory
\* when it has been removed since line 54, and is assigned; or it raises
NewVectorStore(t) ==
    /\ pc[t] = "vs_new"
    /\ \/ /\ globals' = [globals EXCEPT !.vector_store = Some(built.vector_store + 1)]
          /\ built' = [built EXCEPT !.vector_store = @ + 1]
          /\ persist_dir' = Mkdir(persist_dir)
          /\ pc' = [pc EXCEPT ![t] = "search"]
          /\ absent' = Track(persist_dir')
          /\ UNCHANGED <<idx, http, call>>
       \/ /\ \E e \in ConstructorErrors \cup LibraryErrors : Raise(t, e, call[t])
          /\ UNCHANGED <<globals, built, persist_dir>>
    /\ UNCHANGED <<functionVars, payload, responses, frame, ingest>>

\* a variant that asks the chat model whatever the search returned
AfterSearchAlwaysAsks(retrieved) == "llm_test"

\* line 91: where query_rag goes on after the search
AfterSearch(retrieved) == IF retrieved = <<>> THEN "return" ELSE "llm_test"

\* lines 89-92: the similarity search, which returns at most top_k chunks or
\* raises an error (Chroma refuses a k below 1), and the return when it found
\* nothing
Search(t, lists) ==
    /\ pc[t] = "search"
    /\ \E r \in { Returns(l) : l \in { h \in lists : Len(h) <= frame[t].top_k } }
                \cup { Raises(e) : e \in LibraryErrors } :
          IF r.exc # NoException
          THEN /\ Raise(t, r.exc, call[t])
               /\ UNCHANGED frame
          ELSE LET c == [call[t] EXCEPT !.searched = TRUE, !.found = r.val]
               IN IF AfterSearch(r.val) = "return"
                  THEN /\ frame' = [frame EXCEPT ![t].retrieved = r.val,
                                                 ![t].answer = IDontKnow,
                                                 ![t].chunks = <<>>]
                       /\ call' = [call EXCEPT ![t] = [c EXCEPT !.returned = TRUE]]
                       /\ pc' = [pc EXCEPT ![t] = "returned"]
                       /\ absent' = TrackEnd(t, persist_dir)
                       /\ UNCHANGED <<idx, http>>
                  ELSE /\ frame' = [frame EXCEPT ![t].retrieved = r.val]
                       /\ call' = [call EXCEPT ![t] = c]
                       /\ Goto(t, AfterSearch(r.val))
    /\ UNCHANGED <<functionVars, globals, built, payload, responses, persist_dir, ingest>>

\* line 68, reached from line 96
TestLlm(t) ==
    /\ pc[t] = "llm_test"
    /\ Goto(t, IF globals.llm = None THEN "llm_new" ELSE "invoke")
    /\ UNCHANGED <<functionVars, globals, built, payload, responses, frame, call, persist_dir,
                   ingest>>

\* lines 69-73: ChatOpenAI(...) returns and is assigned, or raises
NewLlm(t) ==
    /\ pc[t] = "llm_new"
    /\ \/ /\ globals' = [globals EXCEPT !.llm = Some(built.llm + 1)]
          /\ built' = [built EXCEPT !.llm = @ + 1]
          /\ Goto(t, "invoke")
          /\ UNCHANGED call
       \/ /\ \E e \in ConstructorErrors : Raise(t, e, call[t])
          /\ UNCHANGED <<globals, built>>
    /\ UNCHANGED <<functionVars, payload, responses, frame, persist_dir, ingest>>

\* lines 96-97: the chat model is called; query_rag returns its answer,
\* stripped, and the retrieved chunks
Invoke(t, replies) ==
    /\ pc[t] = "invoke"
    /\ \E r \in { Returns(c) : c \in replies } \cup { Raises(e) : e \in LibraryErrors } :
          LET c == [call[t] EXCEPT !.llm_calls = @ + 1]
          IN IF r.exc # NoException
             THEN /\ Raise(t, r.exc, c)
                  /\ UNCHANGED frame
             ELSE /\ frame' = [frame EXCEPT ![t].answer = Strip(r.val),
                                            ![t].chunks = frame[t].retrieved]
                  /\ call' = [call EXCEPT ![t] = [c EXCEPT !.returned = TRUE]]
                  /\ pc' = [pc EXCEPT ![t] = "returned"]
                  /\ absent' = TrackEnd(t, persist_dir)
                  /\ UNCHANGED <<idx, http>>
    /\ UNCHANGED <<functionVars, globals, built, payload, responses, persist_dir, ingest>>

\* the steps of query_rag
QueryRagStep(t, lists, replies) ==
    \/ TestDirectory(t)
    \/ TestEmbeddings(t)
    \/ NewEmbeddings(t)
    \/ NewVectorStore(t)
    \/ Search(t, lists)
    \/ TestLlm(t)
    \/ NewLlm(t)
    \/ Invoke(t, replies)

-----------------------------------------------------------------------------
(* rag_api.query_endpoint, one request per thread                          *)

\* bool(x) of an Optional[int]
Truthy(x) == x # None /\ x[1] # 0

\* line 64: payload.default_top_k or 5
FallbackK(default_top_k) == IF Truthy(default_top_k) THEN default_top_k[1] ELSE 5

\* a variant that falls back only when top_k is None
TopKUnlessNone(top_k, fallback_k) == IF top_k # None THEN top_k[1] ELSE fallback_k

\* line 67: item.top_k or fallback_k
TopK(top_k, fallback_k) == IF Truthy(top_k) THEN top_k[1] ELSE fallback_k

\* RelevantChunk of a chunk: document_name is Optional[str] and page_number is
\* Optional[int]; pydantic takes None, a str for the first and an int for the
\* second as they are, and raises ValidationError for an int given as name
Validates(chunk) ==
    /\ chunk.document_name.type \in {"NoneType", "str"}
    /\ chunk.page_number.type \in {"NoneType", "int"}

\* the longest batch enumerated
MaxQuestions == 2

Question(question_id, top_k) == [question_id |-> question_id, top_k |-> top_k]

\* the batches of up to MaxQuestions questions with the given top_k values
Batches(top_ks, defaults) ==
    { [questions |-> [i \in 1..n |-> Question(i, ks[i])], default_top_k |-> d] :
        n \in 0..MaxQuestions, ks \in [1..MaxQuestions -> top_ks], d \in defaults }

NoPayload == [questions |-> <<>>, default_top_k |-> None]

\* the pool hands a request to its first idle thread; lines 60-64
StartRequest(t, batches) ==
    /\ pc[t] = "idle"
    /\ \A u \in Threads : u < t => pc[u] # "idle"
    /\ \E body \in batches :
          /\ payload' = [payload EXCEPT ![t] = body]
          /\ IF body.questions = <<>>
             THEN /\ pc' = [pc EXCEPT ![t] = "done"]
                  /\ http' = [http EXCEPT ![t] =
                                 HttpResponse(400, "Payload must contain at least one question",
                                              None)]
                  /\ UNCHANGED <<idx, frame>>
             ELSE /\ pc' = [pc EXCEPT ![t] = "item"]
                  /\ idx' = [idx EXCEPT ![t] = 1]
                  /\ frame' = [frame EXCEPT ![t] =
                                  [NoFrame EXCEPT !.caller = "query_endpoint",
                                                  !.fallback_k = FallbackK(body.default_top_k)]]
                  /\ UNCHANGED http
    /\ absent' = Track(persist_dir)
    /\ UNCHANGED <<functionVars, globals, built, responses, call, persist_dir, ingest>>

\* lines 66-69: the next question of the batch; query_rag is called
NextQuestion(t) ==
    /\ pc[t] = "item"
    /\ EnterQueryRag(t, TopK(payload[t].questions[idx[t]].top_k, frame[t].fallback_k))
    /\ UNCHANGED <<functionVars, globals, built, payload, idx, responses, http, persist_dir,
                   ingest>>

\* lines 74-83: query_rag has returned.  A chunk that RelevantChunk refuses
\* raises outside the try statement, and the server answers 500 "Internal
\* Server Error"; otherwise the QueryResponse of the question is appended.
Respond(t) ==
    /\ pc[t] = "returned"
    /\ frame[t].caller = "query_endpoint"
    /\ LET item == payload[t].questions[idx[t]]
           metadata == collect_chunk_metadata(frame[t].chunks)
           valid == \A i \in 1..Len(metadata) : Validates(metadata[i])
           last == idx[t] = Len(payload[t].questions)
       IN /\ responses' = [responses EXCEPT ![t] =
                              IF valid
                              THEN Append(@, [question_id |-> item.question_id,
                                              relevant_chunks |-> metadata,
                                              answer |-> Coerce(frame[t].answer)])
                              ELSE @]
          /\ pc' = [pc EXCEPT ![t] = IF valid /\ ~last THEN "item" ELSE "done"]
          /\ idx' = [idx EXCEPT ![t] = IF valid /\ ~last THEN @ + 1 ELSE @]
          /\ http' = [http EXCEPT ![t] = IF ~valid
                                         THEN HttpResponse(500, "Internal Server Error", None)
                                         ELSE IF last
                                         THEN HttpResponse(200, "", Some(responses'[t]))
                                         ELSE @]
    /\ absent' = Track(persist_dir)
    /\ UNCHANGED <<functionVars, globals, built, payload, frame, call, persist_dir, ingest>>

\* the response has been sent; the thread is free for the next request
FinishRequest(t) ==
    /\ pc[t] = "done"
    /\ pc' = [pc EXCEPT ![t] = "idle"]
    /\ payload' = [payload EXCEPT ![t] = NoPayload]
    /\ idx' = [idx EXCEPT ![t] = 0]
    /\ responses' = [responses EXCEPT ![t] = <<>>]
    /\ frame' = [frame EXCEPT ![t] = NoFrame]
    /\ http' = [http EXCEPT ![t] = NoResponse]
    /\ call' = [call EXCEPT ![t] = NoCall]
    /\ absent' = [Track(persist_dir) EXCEPT ![t] = NotAbsent]
    /\ UNCHANGED <<functionVars, globals, built, persist_dir, ingest>>

ServerStep(t, batches, lists, replies) ==
    \/ StartRequest(t, batches)
    \/ NextQuestion(t)
    \/ QueryRagStep(t, lists, replies)
    \/ Respond(t)
    \/ FinishRequest(t)

-----------------------------------------------------------------------------
(* query_rag.py: the loop over its questions, in the first thread          *)

\* lines 46-47 and 8-11: the next question is asked with k=5
CliAsk ==
    /\ pc[1] = "main"
    /\ idx[1] <= Len(CliQuestions)
    /\ EnterQueryRag(1, 5)
    /\ UNCHANGED <<functionVars, globals, built, payload, idx, responses, http, persist_dir,
                   ingest>>

\* lines 16-35: query_rag has returned; the answer and its sources are
\* printed, or the warning that nothing was found
CliReport ==
    /\ pc[1] = "returned"
    /\ frame[1].caller = "ask_question"
    /\ pc' = [pc EXCEPT ![1] = "main"]
    /\ idx' = [idx EXCEPT ![1] = @ + 1]
    /\ absent' = Track(persist_dir)
    /\ UNCHANGED <<functionVars, globals, built, payload, responses, frame, http, call, persist_dir,
                   ingest>>

\* the loop has ended
CliExit ==
    /\ pc[1] = "main"
    /\ idx[1] > Len(CliQuestions)
    /\ pc' = [pc EXCEPT ![1] = "exit"]
    /\ absent' = Track(persist_dir)
    /\ UNCHANGED <<functionVars, globals, built, payload, idx, responses, frame, http, call,
                   persist_dir, ingest>>

-----------------------------------------------------------------------------
(* Specifications.                                                         *)

vars == <<functionVars, requestVars, diskVars>>

CoerceIdle == raw_answer = <<>> /\ coerced = Pending

MetaIdle == chunksIn = <<>> /\ structured = <<>> /\ metaDone = FALSE

LoadIdle == tree = <<>> /\ documents = <<>> /\ warnings = <<>> /\ loadDone = FALSE

\* a process that has just started: no handle, every thread idle
ProcessInit ==
    /\ globals = NoGlobals
    /\ built = [embeddings |-> 0, vector_store |-> 0, llm |-> 0]
    /\ pc = [t \in Threads |-> "idle"]
    /\ payload = [t \in Threads |-> NoPayload]
    /\ idx = [t \in Threads |-> 0]
    /\ responses = [t \in Threads |-> <<>>]
    /\ frame = [t \in Threads |-> NoFrame]
    /\ http = [t \in Threads |-> NoResponse]
    /\ call = [t \in Threads |-> NoCall]
    /\ absent = [t \in Threads |-> NotAbsent]

\* the store an earlier ingestion run has left
OldStore ==
    Directory(TRUE, SplitDocuments(<<Document(TextOf(0, 64, 0), TaxTxt,
                                              JoinPath(DATA_DIR \o <<TaxTxt>>), 1,
                                              Str(<<"t", "x", "t">>))>>))

\* the requests of the server model: the first thread takes batches of two
\* questions, the second thread batches of one
ServerBatches(t) ==
    IF t = 1
    THEN { [questions |-> <<Question(1, None), Question(2, Some(1))>>, default_top_k |-> None] }
    ELSE { [questions |-> <<Question(1, None)>>, default_top_k |-> None] }

ServerIdle ==
    /\ persist_dir = Directory(FALSE, <<>>)
    /\ ingest = NoIngest
    /\ ProcessInit

\* _coerce_answer on every answer of AnswerInputs
CoerceSpecInit ==
    /\ raw_answer \in AnswerInputs
    /\ coerced = Pending
    /\ MetaIdle /\ LoadIdle /\ ServerIdle

CoerceSpec == CoerceSpecInit /\ [][CoerceAnswer]_vars

\* collect_chunk_metadata on every list of ChunkLists
MetaSpecInit ==
    /\ chunksIn \in ChunkLists
    /\ structured = <<>>
    /\ metaDone = FALSE
    /\ CoerceIdle /\ LoadIdle /\ ServerIdle

MetaSpec == MetaSpecInit /\ [][CollectMetadata]_vars

\* load_legal_documents on every listing of every tree of Trees
LoadSpecInit ==
    /\ \E S \in Trees : tree \in Listings(S)
    /\ documents = <<>>
    /\ warnings = <<>>
    /\ loadDone = FALSE
    /\ CoerceIdle /\ MetaIdle /\ ServerIdle

LoadSpec == LoadSpecInit /\ [][LoadDocuments]_vars

\* runs of rag_data.py, one after the other, with nothing else at work
IngestSpecInit ==
    /\ CoerceIdle /\ MetaIdle /\ LoadIdle
    /\ persist_dir \in {Directory(FALSE, <<>>), Directory(TRUE, <<>>), OldStore}
    /\ ingest = NoIngest
    /\ ProcessInit

IngestStep(runs) ==
    \/ IngestStart(runs)
    \/ IngestExists
    \/ IngestRmtree
    \/ IngestMkdir
    \/ IngestOpen
    \/ IngestAdd

IngestSpec == IngestSpecInit /\ [][IngestStep(IngestRuns)]_vars

\* a server process that has just started, PERSIST_DIR missing or left by an
\* earlier ingestion run
Init ==
    /\ CoerceIdle /\ MetaIdle /\ LoadIdle
    /\ persist_dir \in {Directory(FALSE, <<>>), OldStore}
    /\ ingest = NoIngest
    /\ ProcessInit

\* the server with one request at a time, on batches with every kind of
\* top_k; the search returns nothing, a chunk, or a chunk whose document name
\* is a number, and the chat model answers "3"
TopKSpec ==
    Init /\ [][ServerStep(1,
                          Batches({None, Some(0), Some(2), Some(-1)},
                                  {None, Some(0), Some(3)}),
                          { <<>>, <<Hit(PyStr(CivilPdf), PyInt(1))>>,
                            <<Hit(PyInt(7), PyInt(1))>> },
                          { Str(<<"3">>) })]_vars

\* query_rag.py, from its start to its exit
QuerySpecInit ==
    /\ CoerceIdle /\ MetaIdle /\ LoadIdle
    /\ persist_dir \in {Directory(FALSE, <<>>), OldStore}
    /\ ingest = NoIngest
    /\ globals = NoGlobals
    /\ built = [embeddings |-> 0, vector_store |-> 0, llm |-> 0]
    /\ pc = [t \in Threads |-> IF t = 1 THEN "main" ELSE "idle"]
    /\ payload = [t \in Threads |-> NoPayload]
    /\ idx = [t \in Threads |-> IF t = 1 THEN 1 ELSE 0]
    /\ responses = [t \in Threads |-> <<>>]
    /\ frame = [t \in Threads |-> IF t = 1 THEN [NoFrame EXCEPT !.caller = "ask_question"]
                                  ELSE NoFrame]
    /\ http = [t \in Threads |-> NoResponse]
    /\ call = [t \in Threads |-> NoCall]
    /\ absent = [t \in Threads |-> NotAbsent]

QueryNext ==
    \/ CliAsk
    \/ QueryRagStep(1, HitLists, ReplyTexts)
    \/ CliReport
    \/ CliExit

QuerySpec == QuerySpecInit /\ [][QueryNext]_vars

\* what lines 105-117 compute on the data directory of the server model,
\* which holds one document
ServerRuns == { LoadAndSplit(<<TextFile(<<LawTxt>>, TRUE, TextOf(2, 50, 1))>>) }

\* the server: requests that overlap, runs of rag_data.py and removals of
\* PERSIST_DIR, in any interleaving; the search returns nothing or a chunk,
\* and the chat model answers "3"
Next ==
    \/ \E t \in Threads :
          ServerStep(t, ServerBatches(t), { <<>>, <<Hit(PyStr(CivilPdf), PyInt(1))>> },
                     { Str(<<"3">>) })
    \/ IngestStep(ServerRuns)
    \/ RemoveDir

Spec == Init /\ [][Next]_vars
-----------------------------------------------------------------------------
(* C1: the answer of POST /query.                                          *)

\* digit (["_"] digit)*
IsDigitPart(s) ==
    /\ s # <<>>
    /\ IsDigit(s[1]) /\ IsDigit(s[Len(s)])
    /\ \A i \in 1..Len(s) : IsDigit(s[i]) \/ s[i] = Underscore
    /\ \A i \in 1..(Len(s) - 1) : s[i] = Underscore => s[i + 1] # Underscore

Unsigned(s) == IF s # <<>> /\ s[1] \in SignChars THEN Tail(s) ELSE s

\* the text parses as an integer
IsIntegerText(s) ==
    /\ IsDigitPart(Unsigned(s))
    /\ Len(SelectSeq(s, IsDigit)) <= INT_MAX_STR_DIGITS

IsPointFloat(m) ==
    \/ IsDigitPart(m)
    \/ \E k \in 1..Len(m) :
          LET a == SubSeq(m, 1, k - 1)
              b == SubSeq(m, k + 1, Len(m))
          IN /\ m[k] = Dot
             /\ a = <<>> \/ IsDigitPart(a)
             /\ b = <<>> \/ IsDigitPart(b)
             /\ a # <<>> \/ b # <<>>

\* the text parses as a floating-point number
IsFloatText(s) ==
    LET u == Unsigned(s)
    IN \/ LowerAscii(u) \in InfWords \cup NanWords
       \/ IsPointFloat(u)
       \/ \E k \in 1..Len(u) :
             /\ u[k] \in {Ord("e"), Ord("E")}
             /\ IsPointFloat(SubSeq(u, 1, k - 1))
             /\ IsDigitPart(Unsigned(SubSeq(u, k + 1, Len(u))))

\* the integer a text of digits, underscores and a sign stands for
IntegerValueOf(s) ==
    LET ds == SelectSeq(s, IsDigit)
    IN IntValue(s[1] = Minus, [k \in 1..Len(ds) |-> DigitVal(ds[k])])

\* C1 as stated: the answer is the integer when the trimmed text parses as an
\* integer, otherwise a float when the trimmed text parses as a float, otherwise
\* the trimmed text; no text that does not parse as a number becomes a number.
C1_NumberOnlyWhenTextParses ==
    coerced.type # "pending" =>
        LET t == Strip(raw_answer)
        IN /\ IsIntegerText(t) => coerced.type = "int" /\ coerced.val = IntegerValueOf(t)
           /\ ~IsIntegerText(t) /\ IsFloatText(t) => coerced.type = "float"
           /\ ~IsIntegerText(t) /\ ~IsFloatText(t) => coerced.type = "str" /\ coerced.val = t

\* C1 amended: the float case is decided on the trimmed text with every comma
\* replaced by a dot, so "1,5" is returned as the number 1.5; the integer case
\* and the string case are as stated, the string being the trimmed text with
\* its commas kept.
C1_CoerceWithDecimalComma ==
    coerced.type # "pending" =>
        LET t == Strip(raw_answer)
            dotted == ReplaceComma(t)
        IN /\ IsIntegerText(t) => coerced.type = "int" /\ coerced.val = IntegerValueOf(t)
           /\ ~IsIntegerText(t) /\ IsFloatText(dotted) =>
                 coerced.type = "float" /\ coerced.val = ParseFloat(dotted).val
           /\ ~IsIntegerText(t) /\ ~IsFloatText(dotted) =>
                 coerced.type = "str" /\ coerced.val = t

\* a text with a decimal comma between white space has been coerced to a float
C1_Witness ==
    /\ coerced.type = "float"
    /\ \E i \in 1..Len(raw_answer) : raw_answer[i] = Comma
    /\ IsSpace(raw_answer[1])

-----------------------------------------------------------------------------
(* C5: collect_chunk_metadata deduplicates by (document_name, page_number). *)

PairOf(x) == <<x.document_name, x.page_number>>

FirstIndex(pair, chunks) ==
    CHOOSE i \in 1..Len(chunks) :
        /\ PairOf(chunks[i]) = pair
        /\ \A j \in 1..(i - 1) : PairOf(chunks[j]) # pair

\* C5: no two entries of the result share a (document_name, page_number) pair,
\* every pair of the input occurs in it, every entry comes from the input, and
\* the entries are in the order of first occurrence; a missing name or page is
\* a key value like any other.
C5_DeduplicatedInFirstOccurrenceOrder ==
    metaDone =>
        /\ \A a, b \in 1..Len(structured) :
              PairOf(structured[a]) = PairOf(structured[b]) => a = b
        /\ \A i \in 1..Len(chunksIn) :
              \E a \in 1..Len(structured) : PairOf(structured[a]) = PairOf(chunksIn[i])
        /\ \A a \in 1..Len(structured) :
              \E i \in 1..Len(chunksIn) : PairOf(structured[a]) = PairOf(chunksIn[i])
        /\ \A a, b \in 1..Len(structured) :
              a < b => FirstIndex(PairOf(structured[a]), chunksIn)
                         < FirstIndex(PairOf(structured[b]), chunksIn)
        /\ \A a \in 1..Len(structured) :
              DOMAIN structured[a] = {"document_name", "page_number"}

\* a list with a repeated pair, a second page of the same document and a chunk
\* without a page has been collected
C5_Witness ==
    /\ metaDone
    /\ Len(structured) = 2
    /\ Len(chunksIn) = 3
    /\ structured[1].document_name = structured[2].document_name
    /\ structured[1].page_number.type = "int"
    /\ structured[2].page_number = PyNone

-----------------------------------------------------------------------------
(* C6 and C7: load_legal_documents.                                        *)

IsPdf(entry) == SuffixLower(Suffix(FileName(entry))) = PdfSuffix

Supported(entry) ==
    IsPdf(entry) \/ SuffixLower(Suffix(FileName(entry))) \in SUPPORTED_TEXT_EXTENSIONS

Files == { k \in 1..Len(tree) : ~tree[k].is_dir }

NumPages(entry) == IF IsPdf(entry) THEN Len(entry.pages) ELSE 1

\* the trimmed text of page j of a file
TrimmedPage(entry, j) ==
    IF IsPdf(entry) THEN Strip(PageText(entry.pages[j])) ELSE Strip(entry.text)

KeptPages(entry) ==
    { j \in 1..NumPages(entry) : Len(TrimmedPage(entry, j)) >= MIN_CHARS_PER_PAGE }

\* the documents that come from a file
DocsOf(entry) ==
    { i \in 1..Len(documents) : documents[i].metadata.source_path = RelativePath(entry) }

\* C6: every returned document has trimmed text of at least 50 characters and
\* is the page of its file at position page_number (1-based, dropped pages
\* counted); a page whose trimmed text is shorter is not returned, and every
\* page of a loaded file with at least 50 trimmed characters is returned
\* under its own position.
C6_ShortPagesDroppedPositionsKept ==
    loadDone =>
        /\ \A i \in 1..Len(documents) :
              LET d == documents[i]
              IN /\ Len(d.page_content) >= MIN_CHARS_PER_PAGE
                 /\ Strip(d.page_content) = d.page_content
                 /\ \E k \in Files :
                       /\ RelativePath(tree[k]) = d.metadata.source_path
                       /\ FileName(tree[k]) = d.metadata.document_name
                       /\ d.metadata.page_number \in KeptPages(tree[k])
                       /\ TrimmedPage(tree[k], d.metadata.page_number) = d.page_content
        /\ \A k \in Files :
              Supported(tree[k]) /\ tree[k].readable =>
                  \A j \in KeptPages(tree[k]) :
                      \E i \in DocsOf(tree[k]) : documents[i].metadata.page_number = j

\* a PDF lost its second page and kept its third as page 3
C6_Witness ==
    /\ loadDone
    /\ \E i \in 1..Len(documents) :
          /\ documents[i].metadata.page_number = 3
          /\ \A j \in 1..Len(documents) :
                documents[j].metadata.source_path = documents[i].metadata.source_path
                    => documents[j].metadata.page_number # 2

LogHas(kind, entry) ==
    \E m \in 1..Len(warnings) : warnings[m] = <<kind, FileName(entry)>>

\* the file a document comes from
FileOf(d) == CHOOSE k \in Files : RelativePath(tree[k]) = d.metadata.source_path

\* C7: a file whose extension, read without regard to case, is not .pdf, .txt
\* or .md, and a supported file that fails to load, are reported and
\* contribute no document; every kept page of every other supported file is
\* returned; the documents are in sorted path order, the pages of one file in
\* page order.
C7_SkipsAndContinuesInPathOrder ==
    loadDone =>
        /\ \A k \in Files :
              LET e == tree[k]
              IN /\ ~Supported(e) => DocsOf(e) = {} /\ LogHas("unsupported", e)
                 /\ Supported(e) /\ ~e.readable => DocsOf(e) = {} /\ LogHas("failed", e)
                 /\ Supported(e) /\ e.readable =>
                       Cardinality(DocsOf(e)) = Cardinality(KeptPages(e))
        /\ \A a, b \in 1..Len(documents) :
              a < b =>
                  LET p == tree[FileOf(documents[a])].path
                      q == tree[FileOf(documents[b])].path
                  IN \/ PathLess(p, q)
                     \/ /\ p = q
                        /\ documents[a].metadata.page_number
                              < documents[b].metadata.page_number

\* a file that fails to load and an unsupported file were skipped and a file
\* that sorts after both was loaded, from a listing that is not in path order
C7_Witness ==
    /\ loadDone
    /\ Len(warnings) = 3
    /\ warnings[1][1] = "failed"
    /\ warnings[2][1] = "unsupported"
    /\ warnings[3][1] = "added"
    /\ documents # <<>>
    /\ PathLess(tree[2].path, tree[1].path)

-----------------------------------------------------------------------------
(* C4: what an ingestion run leaves in PERSIST_DIR.                        *)

\* C4 as stated: after every run of build_vector_store, a run that loaded no
\* document included, PERSIST_DIR exists and holds exactly the chunks of the
\* documents loaded in that run.
C4_EveryRunRebuilds ==
    ingest.pc = "returned" => persist_dir = Directory(TRUE, ingest.chunks)

\* C4 amended: after a run that loaded at least one document and returned,
\* nothing else having touched PERSIST_DIR meanwhile, the directory exists and
\* holds exactly the chunks of the documents loaded in that run, nothing of an
\* earlier run.
C4_RebuildsWhenDocumentsLoaded ==
    ingest.pc = "returned" /\ ingest.documents # <<>> =>
        /\ persist_dir.exists
        /\ persist_dir.chunks = SplitDocuments(ingest.documents)
        /\ Len(persist_dir.chunks) = Len(ingest.documents)

\* a run that found the chunks of an earlier run has returned and left its own
C4_Witness ==
    /\ ingest.pc = "returned"
    /\ ingest.found_chunks
    /\ ingest.documents # <<>>
    /\ persist_dir.chunks = ingest.chunks
    /\ persist_dir # OldStore

-----------------------------------------------------------------------------
(* C8: the result count passed to the query pipeline.                      *)

Given(x) == x # None /\ x[1] # 0

\* the question's own top_k, else the batch's default_top_k, else 5
ExpectedTopK(item, body) ==
    IF Given(item.top_k) THEN item.top_k[1]
    ELSE IF Given(body.default_top_k) THEN body.default_top_k[1]
    ELSE 5

\* C8: the top_k passed to query_rag for the i-th question of a batch is the
\* question's own top_k when given and not 0, otherwise the batch's
\* default_top_k when given and not 0, otherwise 5; it is never 0, and it
\* depends on no other question of the batch.
C8_TopKOwnThenDefaultThenFive ==
    \A i \in 1..Len(call[1].passed) :
        /\ i <= Len(payload[1].questions)
        /\ call[1].passed[i] = ExpectedTopK(payload[1].questions[i], payload[1])
        /\ call[1].passed[i] # 0

\* a batch answered in full: the first question, whose top_k is 0, was asked
\* with the batch's default of 3 and the second with its own top_k of 2
C8_Witness ==
    /\ pc[1] = "done"
    /\ http[1].status = 200
    /\ payload[1].questions[1].top_k = Some(0)
    /\ payload[1].default_top_k = Some(3)
    /\ call[1].passed = <<3, 2>>

-----------------------------------------------------------------------------
(* C9: query_rag and the chat model.                                       *)

\* C9: the chat model is called only after a search that returned a chunk,
\* and at most once in a call of query_rag; a call that returns after a search
\* without a chunk returns the fixed answer and no chunk, the model not called;
\* a call that returns after a search with chunks has called the model once
\* and returns the chunks retrieved, in their order.
C9_ModelCalledOnlyWithChunks ==
    /\ call[1].llm_calls <= 1
    /\ call[1].llm_calls = 1 => call[1].searched /\ call[1].found # <<>>
    /\ call[1].returned =>
          /\ call[1].searched
          /\ IF call[1].found = <<>>
             THEN /\ call[1].llm_calls = 0
                  /\ frame[1].answer = IDontKnow
                  /\ frame[1].chunks = <<>>
             ELSE /\ call[1].llm_calls = 1
                  /\ frame[1].chunks = call[1].found

\* a later question of the script: the search returned two different chunks,
\* the model was called and query_rag returned both chunks
C9_Witness ==
    /\ call[1].returned
    /\ idx[1] > 1
    /\ Len(call[1].found) = 2
    /\ call[1].found[1] # call[1].found[2]
    /\ call[1].llm_calls = 1
    /\ Len(frame[1].chunks) = 2

-----------------------------------------------------------------------------
(* C2, C3, C10: the server process.                                        *)

\* C2 as stated, for the requests in which the pipeline raises nothing but
\* the missing-directory error: a request that has processed a question while
\* PERSIST_DIR did not exist, from the call of query_rag to its end, ends in
\* 503 without a response list.
C2_MissingDirAlways503 ==
    \A t \in Threads :
        /\ pc[t] = "done"
        /\ absent[t].whole
        /\ call[t].raised \in {NoException, MissingStoreError}
        => http[t].status = 503 /\ http[t].body = None

\* C2 amended: a request in which get_vector_store, the process having no
\* vector-store handle, looks for PERSIST_DIR and finds it missing ends in 503
\* with the missing-directory message and without a response list.
C2_MissingDirFound503 ==
    \A t \in Threads :
        call[t].found_missing =>
            /\ pc[t] = "done"
            /\ http[t] = HttpResponse(503, MissingStoreError.msg, None)

\* a request found PERSIST_DIR missing between the rmtree and the mkdir of an
\* ingestion run that replaces an earlier store
C2_Witness ==
    \E t \in Threads :
        /\ call[t].found_missing
        /\ http[t].status = 503
        /\ ingest.pc = "mkdir"
        /\ ingest.found_chunks

\* C3 as stated: any exception of the pipeline but the missing-directory error
\* ends the request in 500 with the text of the exception and no response.
C3_OtherExceptions500 ==
    \A t \in Threads :
        pc[t] = "done" /\ call[t].raised \notin {NoException, MissingStoreError} =>
            http[t] = HttpResponse(500, call[t].raised.msg, None)

\* C3 amended: an exception of the pipeline that is not a FileNotFoundError
\* ends the request in 500, a FileNotFoundError of any origin in 503, both
\* with the text of the exception and without a response for any question.
C3_NonFileNotFound500 ==
    \A t \in Threads :
        pc[t] = "done" /\ call[t].raised # NoException =>
            /\ http[t].status = IF call[t].raised.cls = "FileNotFoundError" THEN 503 ELSE 500
            /\ http[t].detail = call[t].raised.msg
            /\ http[t].body = None

\* the second question of a batch failed with a RuntimeError after the first
\* had been answered: 500, and the first answer is not returned
C3_Witness ==
    \E t \in Threads :
        /\ pc[t] = "done"
        /\ idx[t] = 2
        /\ Len(responses[t]) = 1
        /\ call[t].raised.cls = "RuntimeError"
        /\ http[t].status = 500
        /\ http[t].body = None

Handles == {"embeddings", "vector_store", "llm"}

\* C10: each handle is constructed at most once and, once set, stays as it
\* is; a call of get_vector_store that finds PERSIST_DIR missing leaves the
\* vector-store handle as it was.
C10_HandlesBuiltOnce ==
    [][ /\ \A h \in Handles :
              /\ built'[h] <= 1
              /\ globals[h] # None => globals'[h] = globals[h]
        /\ \A t \in Threads :
              call'[t].found_missing /\ ~call[t].found_missing =>
                  globals'.vector_store = globals.vector_store ]_vars

=============================================================================
